---- MODULE Spec2Model ----
(***************************************************************************)
(* Booking back end of the Hebron scheduling service (backend/server.py).  *)
(*                                                                         *)
(* The store is the MongoDB collection db.bookings, kept as the sequence   *)
(* of its documents in insertion order.  Request handlers are asyncio      *)
(* coroutines: control can change hands only at an await, so every action  *)
(* below is the code from one await (one round trip to the store) up to    *)
(* the next.  Each single store operation (find_one, update_one with or    *)
(* without upsert, delete_one) is one atomic step.                         *)
(*                                                                         *)
(* Dates are ISO 8601 calendar dates, written as day numbers; day 0 is a   *)
(* Monday, so Python's weekday() is the day number modulo 7.  BadDate is   *)
(* a text that strptime("%Y-%m-%d") rejects.  Names are sequences of       *)
(* characters, because the duplicate-person check reads the requested      *)
(* name as a regular expression.                                           *)
(***************************************************************************)
EXTENDS Integers, Sequences, FiniteSets, TLC

VARIABLES
    bookings,   \* db.bookings: sequence of booking documents
    today,      \* datetime.now().date() as a day number
    now,        \* datetime.now(timezone.utc), a logical instant
    nextId,     \* the next uuid4 handed out by Booking()
    pc,         \* per request slot: where its handler stands
    req,        \* per request slot: the request being served
    loc,        \* per request slot: the handler's local variables
    result,     \* per request slot: the response of the finished handler
    budget,     \* number of further requests the run still accepts
    env,        \* the settings read from the environment at import
    tasks,      \* the confirmation sends created by create_task and not yet
                \* run, in the order of their creation
    mail,       \* the calls of _send_email_via_resend so far, in order
    nextRun,    \* number of the next run of a notification job
    clock,      \* hour of the day in the scheduler's timezone
    sched,      \* the AsyncIOScheduler: running or not, and its job store
    fired,      \* per job id: how often its trigger fired today
    job,        \* per job id: the run the scheduler's executor is in
    client      \* the connection to the database: open or closed

background == <<env, tasks, mail, nextRun, clock, sched, fired, job, client>>

vars == <<bookings, today, now, nextId, pc, req, loc, result, budget,
          env, tasks, mail, nextRun, clock, sched, fired, job, client>>

----------------------------------------------------------------------------
(* Bounds of the model *)

NumProcs == 2
MaxRequests == 2
MaxSeqRequests == 3
RaceCallers == 3
MaxDateRequests == 2
MaxJobRequests == 2
MaxDayRequests == 1
MaxDays == 2
MaxStartups == 2
MaxAvailRequests == 2
MaxEditRequests == 2
MaxSnapRequests == 2
AvailSpan == 8
MaxNameLen == 5
ProbeMargin == 2

(* Program constants *)

HorizonDays == 31
LastBookableWeekday == 3
ReminderHour == 16
SummaryHour == 19
LastSummaryWeekday == 3
LastOpenWeekday == 3

----------------------------------------------------------------------------
(* Values *)

Prayer == "Prayer"
Worship == "Worship"
Roles == {Prayer, Worship}

Booked == "Booked"
Cancelled == "Cancelled"

NoEmail == "None"
NoNotes == "None"

BadDate == -1

(* Names a request may carry.  NameQ holds the regex quantifier "?". *)
NameAB == <<"a", "b">>
NameABUpper == <<"A", "B">>
NameQ == <<"a", "b", "?">>
NameCD == <<"c", "d">>
Names == {NameAB, NameABUpper, NameQ, NameCD}

\* contact addresses
MemberEmail == "member@example.org"
SecondEmail == "second@example.org"
ThirdEmail == "third@example.org"
PastorEmail == "pastor@example.org"

\* RESEND_API_KEY and PASTOR_EMAIL; both default to ""
Configured == [RESEND_API_KEY |-> "key", PASTOR_EMAIL |-> PastorEmail]
Environments ==
    [RESEND_API_KEY : {"", "key"}, PASTOR_EMAIL : {"", PastorEmail}]

\* ids of the two scheduled jobs
DailyReminder == "daily_reminder"
PastorSummary == "pastor_summary"
JobIds == {DailyReminder, PastorSummary}

NotBooked == <<"N", "o", "t", " ", "b", "o", "o", "k", "e", "d">>

NoBody == [id |-> 0]
NoLocals == [none |-> TRUE]
NoRequest == [op |-> "none"]

----------------------------------------------------------------------------
(* Helpers *)

Range(s) == {s[i] : i \in DOMAIN s}

Lower(c) ==
    CASE c = "A" -> "a"
      [] c = "B" -> "b"
      [] c = "C" -> "c"
      [] c = "D" -> "d"
      [] OTHER -> c

(* PCRE match of the whole of text against "^" + pattern + "$" with option i,
   for patterns made of literal characters and the postfix quantifier "?". *)
RECURSIVE RegexMatchI(_, _)
RegexMatchI(pattern, text) ==
    IF pattern = <<>>
    THEN text = <<>>
    ELSE IF Len(pattern) >= 2 /\ pattern[2] = "?"
         THEN \/ RegexMatchI(SubSeq(pattern, 3, Len(pattern)), text)
              \/ /\ text # <<>>
                 /\ Lower(pattern[1]) = Lower(text[1])
                 /\ RegexMatchI(SubSeq(pattern, 3, Len(pattern)), Tail(text))
         ELSE /\ text # <<>>
              /\ Lower(pattern[1]) = Lower(text[1])
              /\ RegexMatchI(Tail(pattern), Tail(text))

Weekday(d) == d % 7

\* the window check with >= where the code has >
ValidateBookingDateShort(d, t) ==
    IF d = BadDate THEN FALSE
    ELSE IF Weekday(d) > LastBookableWeekday THEN FALSE
    ELSE IF d < t THEN FALSE
    ELSE IF d >= t + HorizonDays THEN FALSE
    ELSE TRUE

(* validate_booking_date *)
ValidateBookingDate(d, t) ==
    IF d = BadDate THEN FALSE
    ELSE IF Weekday(d) > LastBookableWeekday THEN FALSE
    ELSE IF d < t THEN FALSE
    ELSE IF d > t + HorizonDays THEN FALSE
    ELSE TRUE

\* the queries of the handlers: the positions of the documents they match
SlotFilter(store, d, r) ==
    {i \in DOMAIN store :
        store[i].date = d /\ store[i].role = r /\ store[i].status = Booked}

UserFilter(store, d, n) ==
    {i \in DOMAIN store :
        /\ store[i].date = d
        /\ RegexMatchI(n, store[i].full_name)
        /\ store[i].status = Booked}

IdFilter(store, id) == {i \in DOMAIN store : store[i].id = id}

ConflictFilter(store, d, r, id) ==
    {i \in SlotFilter(store, d, r) : store[i].id # id}

\* find_one, and the document update_one or delete_one acts on: the first
\* match in store order, 0 when nothing matches
FindOne(hits) ==
    IF hits = {} THEN 0
    ELSE CHOOSE i \in hits : \A j \in hits : i <= j

\* the documents at the positions hits, in store order (find().to_list())
RECURSIVE InOrder(_, _)
InOrder(store, hits) ==
    IF hits = {} THEN <<>>
    ELSE LET i == FindOne(hits)
         IN <<store[i]>> \o InOrder(store, hits \ {i})

\* a Booking whose id is not drawn afresh
NewBookingFixedId(id, t, r) ==
    [id |-> 1, created_at |-> t, full_name |-> r.full_name, role |-> r.role,
     date |-> r.date, status |-> Booked, notes |-> r.notes, email |-> r.email,
     edited_by_admin |-> FALSE, last_updated_at |-> t]

\* booking = Booking(...); doc = booking.model_dump()
NewBooking(id, t, r) ==
    [id |-> id, created_at |-> t, full_name |-> r.full_name, role |-> r.role,
     date |-> r.date, status |-> Booked, notes |-> r.notes, email |-> r.email,
     edited_by_admin |-> FALSE, last_updated_at |-> t]

\* update {"$set": fields} applied to one document
SetFields(b, fields) ==
    [f \in DOMAIN b |-> IF f \in DOMAIN fields THEN fields[f] ELSE b[f]]

RemoveAt(s, i) == SubSeq(s, 1, i - 1) \o SubSeq(s, i + 1, Len(s))

Respond(kind, body) == [kind |-> kind, body |-> body]

----------------------------------------------------------------------------
(* State after construction *)

\* The service starts on the database it finds: empty, or holding a booking
\* made in an earlier run.
StartDay == 7

SeedBooking ==
    [id |-> 1, created_at |-> 0, full_name |-> NameAB, role |-> Worship,
     date |-> StartDay, status |-> Booked, notes |-> NoNotes, email |-> NoEmail,
     edited_by_admin |-> FALSE, last_updated_at |-> 0]

SeedStores == {<<>>, <<SeedBooking>>}

\* the hours of the day at which the model looks at the service
Instants == {ReminderHour - 1, ReminderHour, SummaryHour, SummaryHour + 1}

FirstInstant == CHOOSE h \in Instants : \A g \in Instants : h <= g

NoRun == [at |-> "idle"]

\* the scheduler object of line 54 before start(): no job in its store.
\* jobs is the job store, a list of entries [id, next_run_time]; starts
\* counts the runs of startup_scheduler in the life of the process.
Stopped == [running |-> FALSE, jobs |-> <<>>, starts |-> 0]

\* nothing sent, nothing scheduled, the scheduler not started
NoBackground ==
    /\ tasks = <<>>
    /\ mail = <<>>
    /\ nextRun = 1
    /\ clock = FirstInstant
    /\ sched = Stopped
    /\ fired = [j \in JobIds |-> 0]
    /\ job = [j \in JobIds |-> NoRun]
    /\ client = "open"

InitIn(n, k, stores, days, envs) ==
    /\ bookings \in stores
    /\ today \in days
    /\ now = 1
    /\ nextId = Len(bookings) + 1
    /\ pc = [p \in 1..n |-> "idle"]
    /\ req = [p \in 1..n |-> NoRequest]
    /\ loc = [p \in 1..n |-> NoLocals]
    /\ result = [p \in 1..n |-> Respond("none", NoBody)]
    /\ budget = k
    /\ env \in envs
    /\ NoBackground

InitWith(n, k, stores, days) == InitIn(n, k, stores, days, {Configured})

Init == InitWith(NumProcs, MaxRequests, SeedStores, {StartDay})

Procs == DOMAIN pc

----------------------------------------------------------------------------
(* Requests the model sends *)

ValidDates == {today, today + 1}
ReserveDates == ValidDates \cup {today + 4}
ConcDates == {today, today + 4}
ConcNames == {NameAB, NameABUpper}
UnknownId == nextId + 100
KnownIds == 1..(nextId - 1)

\* BookingUpdate bodies, already reduced to their non-None fields (update_dict)
ConcEdits ==
    {[role |-> r] : r \in Roles}
    \cup {[date |-> d] : d \in ValidDates}
    \cup {[status |-> Booked]}

EditInputs ==
    {[full_name |-> n] : n \in {NameAB, NameCD}}
    \cup {[role |-> r] : r \in Roles}
    \cup {[date |-> d] : d \in ValidDates}
    \cup {[status |-> s] : s \in {Booked, Cancelled}}
    \cup {[date |-> d, role |-> r] : d \in ValidDates, r \in Roles}
    \cup {[notes |-> "late"]}
    \cup {<<>>}

----------------------------------------------------------------------------
(* Plumbing shared by the handlers *)

\* a request is taken up by the first free slot
Free(p) ==
    /\ pc[p] = "idle"
    /\ \A q \in Procs : q < p => pc[q] # "idle"
    /\ budget > 0

Accept(p, r) ==
    /\ req' = [req EXCEPT ![p] = r]
    /\ budget' = budget - 1

Goto(p, label) == pc' = [pc EXCEPT ![p] = label]

Finish(p, kind, body) ==
    /\ pc' = [pc EXCEPT ![p] = "done"]
    /\ result' = [result EXCEPT ![p] = Respond(kind, body)]

\* a plain insert_one in place of the conditional write
InsertOne(store, doc) == [store |-> Append(store, doc), matched_count |-> 0]

\* the write with "$set" where the code has "$setOnInsert": a matching
\* document is overwritten
UpsertOverwrite(store, doc) ==
    LET i == FindOne(SlotFilter(store, doc.date, doc.role))
    IN IF i # 0
       THEN [store |-> [store EXCEPT ![i] = doc], matched_count |-> 1]
       ELSE [store |-> Append(store, doc), matched_count |-> 0]

\* a write that also puts the time of the attempt on a matching document
UpsertTouch(store, doc) ==
    LET i == FindOne(SlotFilter(store, doc.date, doc.role))
    IN IF i # 0
       THEN [store |-> [store EXCEPT ![i].last_updated_at = doc.created_at],
             matched_count |-> 1]
       ELSE [store |-> Append(store, doc), matched_count |-> 0]

\* the conditional write of create_booking:
\* update_one({date, role, status: Booked}, {"$setOnInsert": doc}, upsert=True)
\* leaves a matching document as it is, and inserts doc when none matches
Upsert(store, doc) ==
    IF FindOne(SlotFilter(store, doc.date, doc.role)) # 0
    THEN [store |-> store, matched_count |-> 1]
    ELSE [store |-> Append(store, doc), matched_count |-> 0]

----------------------------------------------------------------------------
(* POST /bookings: create_booking *)

MinNameLen == 2

\* lines 74-79: the body of the request as BookingCreate takes it
ValidBookingCreate(r) ==
    /\ Len(r.full_name) >= MinNameLen
    /\ r.role \in Roles

\* lines 82-88: BookingUpdate takes any text in any field
ValidBookingUpdate(fields) == TRUE

\* lines 417-427: a body BookingCreate rejects is answered 422 before the
\* handler runs; then the date is validated and the first find_one is sent
CreateBookingCall(p, r) ==
    /\ Free(p)
    /\ Accept(p, r)
    /\ IF ~ValidBookingCreate(r)
       THEN Finish(p, "Unprocessable", NoBody)
       ELSE IF ~ValidateBookingDate(r.date, today)
       THEN Finish(p, "InvalidDate", NoBody)
       ELSE Goto(p, "check_slot") /\ UNCHANGED result
    /\ UNCHANGED <<bookings, today, now, nextId, loc>>
    /\ UNCHANGED background

ReserveRequest(d, r, n, e) ==
    [op |-> "reserve", full_name |-> n, role |-> r, date |-> d,
     notes |-> NoNotes, email |-> e]

CreateBooking(p) ==
    \E d \in ConcDates, r \in Roles, n \in ConcNames :
        CreateBookingCall(p, ReserveRequest(d, r, n, NoEmail))

SeqCreateBooking(p) ==
    \E d \in ReserveDates \cup {BadDate}, r \in Roles, n \in Names :
        CreateBookingCall(p, ReserveRequest(d, r, n, NoEmail))

\* a slot pre-check that overlooks the requester's own bookings
CheckSlotTakenByOther(store, r) ==
    FindOne({i \in SlotFilter(store, r.date, r.role) :
                store[i].full_name # r.full_name}) # 0

\* lines 427-437: the slot pre-check
CheckSlotTaken(store, r) ==
    FindOne(SlotFilter(store, r.date, r.role)) # 0

\* lines 437-449: the duplicate-person pre-check
CheckUserBooked(store, r) ==
    FindOne(UserFilter(store, r.date, r.full_name)) # 0

ReserveCheckSlot(p) ==
    /\ pc[p] = "check_slot"
    /\ IF CheckSlotTaken(bookings, req[p])
       THEN Finish(p, "SlotConflict", NoBody)
       ELSE Goto(p, "check_user") /\ UNCHANGED result
    /\ UNCHANGED <<bookings, today, now, nextId, req, loc, budget>>
    /\ UNCHANGED background

\* lines 437-456: the duplicate-person pre-check, then the document is built
ReserveCheckUser(p) ==
    /\ pc[p] = "check_user"
    /\ IF CheckUserBooked(bookings, req[p])
       THEN /\ Finish(p, "DuplicatePerson", NoBody)
            /\ UNCHANGED <<now, nextId, loc>>
       ELSE /\ Goto(p, "upsert")
            /\ loc' = [loc EXCEPT ![p] = [doc |-> NewBooking(nextId, now, req[p])]]
            /\ nextId' = nextId + 1
            /\ now' = now + 1
            /\ UNCHANGED result
    /\ UNCHANGED <<bookings, today, req, budget>>
    /\ UNCHANGED background

\* one call of _send_email_via_resend(to_email, subject, html) and what
\* became of it; run is the job run that made the call, 0 for a confirmation
MailCall(kind, to, ref, run, leaders, outcome) ==
    [kind |-> kind, to |-> to, ref |-> ref, run |-> run, leaders |-> leaders,
     outcome |-> outcome]

\* lines 160-162: without an API key nothing is posted; lines 178-187: the
\* post is answered 2xx, or with another status, or raises (timeout=20)
ResendOutcomes(key) ==
    IF key = "" THEN {"no_api_key"} ELSE {"sent", "rejected", "timeout"}

\* the send awaited inside the handler, before the response
SendConfirmationInline(queue, doc) ==
    [tasks |-> queue.tasks,
     mail |-> Append(queue.mail,
                 MailCall("confirmation", doc.email, doc.id, 0, <<>>, "sent"))]

\* a handler that creates the task twice
ScheduleConfirmationTwice(queue, doc) ==
    [tasks |-> Append(Append(queue.tasks, doc), doc), mail |-> queue.mail]

\* lines 468-469: asyncio.create_task(asyncio.to_thread(send_confirmation_email, doc))
ScheduleConfirmation(queue, doc) ==
    [tasks |-> Append(queue.tasks, doc), mail |-> queue.mail]

\* lines 456-471: the conditional write and the response
ReserveUpsert(p) ==
    /\ pc[p] = "upsert"
    /\ LET write == Upsert(bookings, loc[p].doc)
           queue == [tasks |-> tasks, mail |-> mail]
           after == IF write.matched_count = 0 /\ req[p].email # NoEmail
                    THEN ScheduleConfirmation(queue, loc[p].doc)
                    ELSE queue
       IN /\ bookings' = write.store
          /\ tasks' = after.tasks
          /\ mail' = after.mail
          /\ IF write.matched_count > 0
             THEN Finish(p, "SlotConflict", NoBody)
             ELSE Finish(p, "Ok", loc[p].doc)
    /\ UNCHANGED <<today, now, nextId, req, loc, budget>>
    /\ UNCHANGED <<env, nextRun, clock, sched, fired, job, client>>

\* lines 196-228 and 153-193: the task runs send_confirmation_email in a
\* thread; whatever the send comes to is logged there and goes nowhere
ConfirmationSend ==
    \E i \in DOMAIN tasks, o \in ResendOutcomes(env.RESEND_API_KEY) :
        /\ tasks' = RemoveAt(tasks, i)
        /\ mail' = Append(mail,
                       MailCall("confirmation", tasks[i].email, tasks[i].id,
                                0, <<>>, o))
        /\ UNCHANGED <<bookings, today, now, nextId, pc, req, loc, result,
                       budget, env, nextRun, clock, sched, fired, job,
                       client>>

----------------------------------------------------------------------------
(* The store fails under create_booking *)

\* what an await on db.bookings can raise instead of returning
StoreErrors == {"timeout", "connection_lost"}

\* a handler that catches the exception and answers 409 like a taken slot
HandledAsConflict(exc) == "SlotConflict"

\* create_booking has no try around its store calls: the exception leaves
\* the handler and the framework answers 500
Unhandled(exc) == "ServerError"

\* lines 427-460: one of the three awaits raises.  A write that raises may
\* or may not have reached the store before the failure.
ReserveStoreFails(p) ==
    /\ pc[p] \in {"check_slot", "check_user", "upsert"}
    /\ \E exc \in StoreErrors, landed \in BOOLEAN :
          /\ landed => pc[p] = "upsert"
          /\ bookings' = IF landed THEN Upsert(bookings, loc[p].doc).store
                         ELSE bookings
          /\ loc' = [loc EXCEPT ![p] =
                        [f \in DOMAIN @ \cup {"raised"} |->
                            IF f = "raised" THEN exc ELSE @[f]]]
          /\ Finish(p, Unhandled(exc), NoBody)
    /\ UNCHANGED <<today, now, nextId, req, budget>>
    /\ UNCHANGED background

----------------------------------------------------------------------------
(* PUT /admin/bookings/{id}: update_booking *)

\* the test of line 608 with the status counted in
NeedsSlotCheckOnStatus(fields) ==
    DOMAIN fields \cap {"date", "role", "status"} # {}

\* line 608
NeedsSlotCheck(fields) == "date" \in DOMAIN fields \/ "role" \in DOMAIN fields

\* the stamp without the admin flag
StampTimeOnly(fields, t) ==
    [f \in DOMAIN fields \cup {"last_updated_at"} |->
        IF f = "last_updated_at" THEN t ELSE fields[f]]

\* lines 632-633
Stamp(fields, t) ==
    [f \in DOMAIN fields \cup {"edited_by_admin", "last_updated_at"} |->
        IF f = "edited_by_admin" THEN TRUE
        ELSE IF f = "last_updated_at" THEN t
        ELSE fields[f]]

UpdateBookingCall(p, id, fields) ==
    /\ Free(p)
    /\ Accept(p, [op |-> "edit", id |-> id, fields |-> fields])
    /\ IF ~ValidBookingUpdate(fields)
       THEN /\ Finish(p, "Unprocessable", NoBody)
            /\ UNCHANGED <<loc, now>>
       ELSE IF DOMAIN fields = {}
       THEN /\ Finish(p, "NoFields", NoBody)
            /\ UNCHANGED <<loc, now>>
       ELSE IF NeedsSlotCheck(fields)
       THEN /\ Goto(p, "edit_find")
            /\ UNCHANGED <<result, loc, now>>
       ELSE /\ Goto(p, "edit_commit")
            /\ loc' = [loc EXCEPT ![p] = [update_dict |-> Stamp(fields, now)]]
            /\ now' = now + 1
            /\ UNCHANGED result
    /\ UNCHANGED <<bookings, today, nextId>>
    /\ UNCHANGED background

UpdateBooking(p) ==
    \E id \in KnownIds \cup {UnknownId}, fields \in ConcEdits :
        UpdateBookingCall(p, id, fields)

SeqUpdateBooking(p) ==
    \E id \in KnownIds \cup {UnknownId}, fields \in EditInputs :
        UpdateBookingCall(p, id, fields)

\* lines 609-616
EditFindExisting(p) ==
    /\ pc[p] = "edit_find"
    /\ LET i == FindOne(IdFilter(bookings, req[p].id))
           f == req[p].fields
       IN IF i = 0
          THEN Finish(p, "NotFound", NoBody) /\ UNCHANGED loc
          ELSE /\ Goto(p, "edit_conflict")
               /\ loc' = [loc EXCEPT ![p] =
                    [check_date |-> IF "date" \in DOMAIN f THEN f.date
                                    ELSE bookings[i].date,
                     check_role |-> IF "role" \in DOMAIN f THEN f.role
                                    ELSE bookings[i].role]]
               /\ UNCHANGED result
    /\ UNCHANGED <<bookings, today, now, nextId, req, budget>>
    /\ UNCHANGED background

\* lines 616-635
\* the conflict query with "id": booking_id in place of "id": {"$ne": booking_id}
EditConflictOnSelf(store, id, check_date, check_role) ==
    FindOne({i \in SlotFilter(store, check_date, check_role) :
                store[i].id = id}) # 0

EditConflictFound(store, id, check_date, check_role) ==
    FindOne(ConflictFilter(store, check_date, check_role, id)) # 0

\* a handler that sends no conflict query and goes on to the write
EditWithoutConflictCheck(p) ==
    /\ pc[p] = "edit_conflict"
    /\ Goto(p, "edit_commit")
    /\ loc' = [loc EXCEPT ![p] = [update_dict |-> Stamp(req[p].fields, now)]]
    /\ now' = now + 1
    /\ UNCHANGED <<bookings, today, nextId, req, result, budget>>
    /\ UNCHANGED background

EditCheckConflict(p) ==
    /\ pc[p] = "edit_conflict"
    /\ IF EditConflictFound(bookings, req[p].id, loc[p].check_date, loc[p].check_role)
       THEN /\ Finish(p, "SlotConflict", NoBody)
            /\ UNCHANGED <<loc, now>>
       ELSE /\ Goto(p, "edit_commit")
            /\ loc' = [loc EXCEPT ![p] = [update_dict |-> Stamp(req[p].fields, now)]]
            /\ now' = now + 1
            /\ UNCHANGED result
    /\ UNCHANGED <<bookings, today, nextId, req, budget>>
    /\ UNCHANGED background

\* the write with upsert=True: an id that matches nothing is inserted
EditCommitUpsert(p) ==
    /\ pc[p] = "edit_commit"
    /\ LET i == FindOne(IdFilter(bookings, req[p].id))
       IN bookings' =
             IF i = 0
             THEN Append(bookings, SetFields([id |-> req[p].id], loc[p].update_dict))
             ELSE [bookings EXCEPT ![i] = SetFields(@, loc[p].update_dict)]
    /\ Goto(p, "edit_fetch")
    /\ UNCHANGED <<today, now, nextId, req, loc, result, budget>>
    /\ UNCHANGED background

\* lines 635-640
EditCommit(p) ==
    /\ pc[p] = "edit_commit"
    /\ LET i == FindOne(IdFilter(bookings, req[p].id))
       IN IF i = 0
          THEN Finish(p, "NotFound", NoBody) /\ UNCHANGED bookings
          ELSE /\ bookings' = [bookings EXCEPT ![i] = SetFields(@, loc[p].update_dict)]
               /\ Goto(p, "edit_fetch")
               /\ UNCHANGED result
    /\ UNCHANGED <<today, now, nextId, req, loc, budget>>
    /\ UNCHANGED background

\* lines 640-641
EditFetch(p) ==
    /\ pc[p] = "edit_fetch"
    /\ LET i == FindOne(IdFilter(bookings, req[p].id))
       IN Finish(p, "Ok", IF i = 0 THEN NoBody ELSE bookings[i])
    /\ UNCHANGED <<bookings, today, now, nextId, req, loc, budget>>
    /\ UNCHANGED background

----------------------------------------------------------------------------
(* POST /admin/bookings/{id}/unlock: unlock_slot *)

CancelFields(t) ==
    [status |-> Cancelled, edited_by_admin |-> TRUE, last_updated_at |-> t]

\* a cancellation that removes the document
UnlockByDelete(store, i, t) == RemoveAt(store, i)

\* lines 658-667: update_one({"id": booking_id}, {"$set": {...}}) on document i
Unlock(store, i, t) == [store EXCEPT ![i] = SetFields(@, CancelFields(t))]

UnlockSlotCall(p, id) ==
    /\ Free(p)
    /\ Accept(p, [op |-> "cancel", id |-> id])
    /\ LET i == FindOne(IdFilter(bookings, id))
       IN IF i = 0
          THEN Finish(p, "NotFound", NoBody) /\ UNCHANGED bookings
          ELSE /\ bookings' = Unlock(bookings, i, now)
               /\ Finish(p, "Ok", NoBody)
    /\ now' = now + 1
    /\ UNCHANGED <<today, nextId, loc>>
    /\ UNCHANGED background

UnlockSlot(p) == \E id \in KnownIds \cup {UnknownId} : UnlockSlotCall(p, id)

----------------------------------------------------------------------------
(* DELETE /admin/bookings/{id}: delete_booking *)

DeleteBookingCall(p, id) ==
    /\ Free(p)
    /\ Accept(p, [op |-> "delete", id |-> id])
    /\ LET i == FindOne(IdFilter(bookings, id))
       IN IF i = 0
          THEN Finish(p, "NotFound", NoBody) /\ UNCHANGED bookings
          ELSE /\ bookings' = RemoveAt(bookings, i)
               /\ Finish(p, "Ok", NoBody)
    /\ UNCHANGED <<today, now, nextId, loc>>
    /\ UNCHANGED background

DeleteBooking(p) == \E id \in KnownIds \cup {UnknownId} : DeleteBookingCall(p, id)

----------------------------------------------------------------------------
(* GET /bookings/availability: get_availability, format_name_display *)

IsSpace(c) == c = " "

\* the length of the run of non-space characters s starts with
RECURSIVE TokenLen(_)
TokenLen(s) ==
    IF s = <<>> \/ IsSpace(s[1]) THEN 0 ELSE 1 + TokenLen(Tail(s))

\* full_name.strip().split(): the runs of non-space characters, in order
RECURSIVE Split(_)
Split(s) ==
    IF s = <<>> THEN <<>>
    ELSE IF IsSpace(s[1]) THEN Split(Tail(s))
    ELSE LET n == TokenLen(s)
         IN <<SubSeq(s, 1, n)>> \o Split(SubSeq(s, n + 1, Len(s)))

Anonymous == <<"A", "n", "o", "n", "y", "m", "o", "u", "s">>

\* the initial taken from the second token
FormatNameDisplaySecond(full_name) ==
    LET parts == Split(full_name)
    IN IF Len(parts) >= 2
       THEN parts[1] \o <<" ", parts[2][1], ".">>
       ELSE IF parts # <<>> THEN parts[1] ELSE Anonymous

\* lines 123-128
FormatNameDisplay(full_name) ==
    LET parts == Split(full_name)
    IN IF Len(parts) >= 2
       THEN parts[1] \o <<" ", parts[Len(parts)][1], ".">>
       ELSE IF parts # <<>> THEN parts[1] ELSE Anonymous

\* prayer_booked_by and worship_booked_by of an open cell (None)
NoHolder == <<>>

\* lines 495-502
OpenDay(d) ==
    [date |-> d, prayer_available |-> TRUE, prayer_booked_by |-> NoHolder,
     worship_available |-> TRUE, worship_booked_by |-> NoHolder]

\* the loop with "current < end" as its condition
RECURSIVE OpenDaysExclusive(_, _)
OpenDaysExclusive(current, end) ==
    IF current >= end THEN <<>>
    ELSE (IF Weekday(current) <= LastOpenWeekday
          THEN <<OpenDay(current)>> ELSE <<>>)
         \o OpenDaysExclusive(current + 1, end)

\* lines 491-503: the dict is filled in the order of the dates
RECURSIVE OpenDays(_, _)
OpenDays(current, end) ==
    IF current > end THEN <<>>
    ELSE (IF Weekday(current) <= LastOpenWeekday
          THEN <<OpenDay(current)>> ELSE <<>>)
         \o OpenDays(current + 1, end)

\* the range query without its status condition
RangeHitsAnyStatus(store, start_date, end_date) ==
    {i \in DOMAIN store :
        store[i].date >= start_date /\ store[i].date <= end_date}

\* lines 486-489
RangeHits(store, start_date, end_date) ==
    {i \in DOMAIN store :
        /\ store[i].date >= start_date
        /\ store[i].date <= end_date
        /\ store[i].status = Booked}

\* lines 505-517 for one booking
MarkBooked(availability, booking) ==
    [k \in DOMAIN availability |->
        IF availability[k].date # booking.date THEN availability[k]
        ELSE IF booking.role = Prayer
        THEN [availability[k] EXCEPT
                 !.prayer_available = FALSE,
                 !.prayer_booked_by = FormatNameDisplay(booking.full_name)]
        ELSE IF booking.role = Worship
        THEN [availability[k] EXCEPT
                 !.worship_available = FALSE,
                 !.worship_booked_by = FormatNameDisplay(booking.full_name)]
        ELSE availability[k]]

RECURSIVE MarkAll(_, _)
MarkAll(availability, list) ==
    IF list = <<>> THEN availability
    ELSE MarkAll(MarkBooked(availability, Head(list)), Tail(list))

\* lines 486-519
Availability(store, start_date, end_date) ==
    MarkAll(OpenDays(start_date, end_date),
            InOrder(store, RangeHits(store, start_date, end_date)))

\* lines 474-519: the dates are parsed, the one query awaited, the list
\* built and returned
GetAvailabilityCall(p, start_date, end_date) ==
    /\ Free(p)
    /\ Accept(p, [op |-> "availability", start_date |-> start_date,
                  end_date |-> end_date])
    /\ IF start_date = BadDate \/ end_date = BadDate
       THEN Finish(p, "InvalidDateFormat", NoBody)
       ELSE Finish(p, "Ok", Availability(bookings, start_date, end_date))
    /\ UNCHANGED <<bookings, today, now, nextId, loc>>
    /\ UNCHANGED background

----------------------------------------------------------------------------
(* The notification jobs: send_daily_reminders, send_pastor_daily_summary *)

\* a send that lets the failure of the post reach its caller
SendEmailPropagates(outcome) ==
    IF outcome \in {"rejected", "timeout"} THEN "raised" ELSE "returned"

\* lines 153-193, as its caller sees it: every failure is logged inside
SendEmailViaResend(outcome) == "returned"

\* the reminder query without its status condition
ReminderHitsAnyStatus(store, d) ==
    {i \in DOMAIN store : store[i].date = d /\ store[i].email # NoEmail}

\* lines 321-328
ReminderHits(store, d) ==
    {i \in DOMAIN store :
        /\ store[i].date = d
        /\ store[i].status = Booked
        /\ store[i].email # NoEmail}

\* the summary query without its status condition
SummaryHitsAnyStatus(store, d) == {i \in DOMAIN store : store[i].date = d}

\* lines 359-362
SummaryHits(store, d) ==
    {i \in DOMAIN store : store[i].date = d /\ store[i].status = Booked}

\* lines 364-371: the last record of the role in the order returned
LeaderOf(list, role) ==
    LET mine == {i \in DOMAIN list : list[i].role = role}
    IN IF mine = {} THEN NotBooked
       ELSE list[CHOOSE i \in mine : \A k \in mine : k <= i].full_name

\* the weekday test with Friday let through
SummarySkipsWeekend(d) == Weekday(d) > LastSummaryWeekday + 1

\* lines 349-353
SummarySkips(d) == Weekday(d) > LastSummaryWeekday

\* a run of a job up to its first await
StartRun(kind, run, d) ==
    [kind |-> kind, run |-> run, day |-> d, list |-> <<>>, i |-> 0,
     leaders |-> <<>>,
     at |-> IF kind = PastorSummary /\ SummarySkips(d) THEN "done" ELSE "find"]

\* a job that keeps the log as an already-sent marker: a record that has had
\* a reminder gets no second one
RunRemindersOnce(js, store, log, o) ==
    CASE js.at = "find" ->
            LET list == InOrder(store, ReminderHits(store, js.day))
            IN [js |-> [js EXCEPT !.list = list, !.i = 1,
                                  !.at = IF list = <<>> THEN "done" ELSE "send"],
                store |-> store, mail |-> log]
      [] js.at = "send" ->
            LET booking == js.list[js.i]
                marked == \E k \in DOMAIN log :
                             log[k].kind = "reminder" /\ log[k].ref = booking.id
            IN [js |-> [js EXCEPT !.at = "sleep"],
                store |-> store, mail |-> IF marked THEN log
                         ELSE Append(log, MailCall("reminder", booking.email,
                                                   booking.id, js.run, <<>>, o))]
      [] js.at = "sleep" ->
            [js |-> [js EXCEPT !.i = js.i + 1,
                               !.at = IF js.i < Len(js.list)
                                      THEN "send" ELSE "done"],
             store |-> store, mail |-> log]

\* a job that notes on the record that its reminder went out
RunRemindersNoted(js, store, log, o) ==
    CASE js.at = "find" ->
            LET list == InOrder(store, ReminderHits(store, js.day))
            IN [js |-> [js EXCEPT !.list = list, !.i = 1,
                                  !.at = IF list = <<>> THEN "done" ELSE "send"],
                store |-> store, mail |-> log]
      [] js.at = "send" ->
            LET booking == js.list[js.i]
                k == FindOne(IdFilter(store, booking.id))
            IN [js |-> [js EXCEPT !.at = "sleep"],
                store |-> IF k = 0 THEN store
                          ELSE [store EXCEPT ![k].notes = "reminded"],
                mail |-> Append(log, MailCall("reminder", booking.email,
                                              booking.id, js.run, <<>>, o))]
      [] js.at = "sleep" ->
            [js |-> [js EXCEPT !.i = js.i + 1,
                               !.at = IF js.i < Len(js.list)
                                      THEN "send" ELSE "done"],
             store |-> store, mail |-> log]

\* a job that looks the record up again before each send and passes over
\* one that is no longer Booked
RunRemindersFresh(js, store, log, o) ==
    CASE js.at = "find" ->
            LET list == InOrder(store, ReminderHits(store, js.day))
            IN [js |-> [js EXCEPT !.list = list, !.i = 1,
                                  !.at = IF list = <<>> THEN "done" ELSE "send"],
                store |-> store, mail |-> log]
      [] js.at = "send" ->
            LET booking == js.list[js.i]
                still == \E k \in IdFilter(store, booking.id) :
                            store[k].status = Booked
            IN [js |-> [js EXCEPT !.at = "sleep"],
                store |-> store, mail |-> IF ~still THEN log
                         ELSE Append(log, MailCall("reminder", booking.email,
                                                   booking.id, js.run, <<>>, o))]
      [] js.at = "sleep" ->
            [js |-> [js EXCEPT !.i = js.i + 1,
                               !.at = IF js.i < Len(js.list)
                                      THEN "send" ELSE "done"],
             store |-> store, mail |-> log]

\* lines 313-339: send_daily_reminders from one await to the next, with the
\* outcome o of the send if one is made: the run's next position, the store
\* and the calls made after the step.  The job's one operation on the store
\* is the find of lines 321-328.
RunReminders(js, store, log, o) ==
    CASE js.at = "find" ->
            LET list == InOrder(store, ReminderHits(store, js.day))
            IN [js |-> [js EXCEPT !.list = list, !.i = 1,
                                  !.at = IF list = <<>> THEN "done" ELSE "send"],
                store |-> store, mail |-> log]
      [] js.at = "send" ->
            LET booking == js.list[js.i]
            IN [js |-> [js EXCEPT !.at =
                          IF SendEmailViaResend(o) = "raised"
                          THEN "done" ELSE "sleep"],
                store |-> store, mail |-> Append(log, MailCall("reminder", booking.email,
                                              booking.id, js.run, <<>>, o))]
      [] js.at = "sleep" ->
            [js |-> [js EXCEPT !.i = js.i + 1,
                               !.at = IF js.i < Len(js.list)
                                      THEN "send" ELSE "done"],
             store |-> store, mail |-> log]

\* lines 342-385 and 267-310: send_pastor_daily_summary from one await to
\* the next; send_pastor_leading_email makes no call without PASTOR_EMAIL
RunSummary(js, store, log, o, pastor_email) ==
    CASE js.at = "find" ->
            LET list == InOrder(store, SummaryHits(store, js.day))
            IN [js |-> [js EXCEPT !.list = list, !.at = "send",
                                  !.leaders = <<LeaderOf(list, Prayer),
                                                LeaderOf(list, Worship)>>],
                store |-> store, mail |-> log]
      [] js.at = "send" ->
            [js |-> [js EXCEPT !.at = "done"],
             store |-> store, mail |-> IF pastor_email = "" THEN log
                      ELSE Append(log, MailCall("summary", pastor_email, 0,
                                                js.run, js.leaders, o))]

RunJob(js, store, log, o, e) ==
    IF js.kind = DailyReminder
    THEN RunReminders(js, store, log, o)
    ELSE RunSummary(js, store, log, o, e.PASTOR_EMAIL)

\* lines 915-927: POST /admin/send-reminders and /admin/send-pastor-summary
\* await the job and answer with a message
TriggerCall(p, kind) ==
    /\ Free(p)
    /\ Accept(p, [op |-> "trigger", job |-> kind])
    /\ LET js == StartRun(kind, nextRun, today)
       IN /\ loc' = [loc EXCEPT ![p] = js]
          /\ IF js.at = "done"
             THEN Finish(p, "Ok", NoBody)
             ELSE Goto(p, "job") /\ UNCHANGED result
    /\ nextRun' = nextRun + 1
    /\ UNCHANGED <<bookings, today, now, nextId>>
    /\ UNCHANGED <<env, tasks, mail, clock, sched, fired, job, client>>

TriggerReminders(p) == TriggerCall(p, DailyReminder)

TriggerPastorSummary(p) == TriggerCall(p, PastorSummary)

\* the job awaited by the handler moves on by one await
TriggerStep(p) ==
    /\ pc[p] = "job"
    /\ \E o \in ResendOutcomes(env.RESEND_API_KEY) :
          LET step == RunJob(loc[p], bookings, mail, o, env)
          IN /\ loc' = [loc EXCEPT ![p] = step.js]
             /\ bookings' = step.store
             /\ mail' = step.mail
             /\ IF step.js.at = "done"
                THEN Finish(p, "Ok", NoBody)
                ELSE UNCHANGED <<pc, result>>
    /\ UNCHANGED <<today, now, nextId, req, budget>>
    /\ UNCHANGED <<env, tasks, nextRun, clock, sched, fired, job, client>>

----------------------------------------------------------------------------
(* The scheduler: startup_scheduler, shutdown_db_client, the two triggers *)

\* CronTrigger(hour=16, minute=0) and CronTrigger(hour=PASTOR_EMAIL_HOUR, ...)
Hour(j) == IF j = DailyReminder THEN ReminderHour ELSE SummaryHour

\* a fire time <<day, hour>> has come when the time is day d, hour c
Due(fire_time, d, c) ==
    \/ fire_time[1] < d
    \/ fire_time[1] = d /\ fire_time[2] <= c

\* a trigger that counts the hour just reached as still to come
NextFireInclusive(h, d, c) == IF c <= h THEN <<d, h>> ELSE <<d + 1, h>>

\* CronTrigger.get_next_fire_time: the first h o'clock after the present
\* moment.  The model's hour c stands for the time from c o'clock on, so
\* within hour h today's h o'clock is already past.
NextFire(h, d, c) == IF c < h THEN <<d, h>> ELSE <<d + 1, h>>

\* the entries of the job store that carry the id j
JobsNamed(s, j) == {i \in DOMAIN s.jobs : s.jobs[i].id = j}

Registered(s) == {s.jobs[i].id : i \in DOMAIN s.jobs}

\* the next run time of the job with id j
RunTimeOf(s, j) == s.jobs[FindOne(JobsNamed(s, j))].next_run_time

\* add_job that puts a second entry beside one with the same id
AddJobBeside(jobs, id, t) == Append(jobs, [id |-> id, next_run_time |-> t])

\* scheduler.add_job(func, trigger, id=id, replace_existing=True): an entry
\* with the same id is replaced by the new one, otherwise the job is added
AddJob(jobs, id, t) ==
    LET i == FindOne({k \in DOMAIN jobs : jobs[k].id = id})
        entry == [id |-> id, next_run_time |-> t]
    IN IF i # 0 THEN [jobs EXCEPT ![i] = entry] ELSE Append(jobs, entry)

\* lines 949-962: the two add_job calls, with the next run times their
\* triggers give at day d, hour c
AddBothJobs(jobs, d, c) ==
    AddJob(AddJob(jobs, DailyReminder, NextFire(Hour(DailyReminder), d, c)),
           PastorSummary, NextFire(Hour(PastorSummary), d, c))

\* lines 944-967 in a process that has just started, its client made at
\* import (lines 26-29): both jobs are added and scheduler.start() starts
\* the timer
StartupScheduler ==
    /\ ~sched.running
    /\ sched' = [running |-> TRUE,
                 jobs |-> AddBothJobs(sched.jobs, today, clock),
                 starts |-> 1]
    /\ UNCHANGED <<bookings, today, now, nextId, pc, req, loc, result, budget>>
    /\ client' = "open"
    /\ UNCHANGED <<env, tasks, mail, nextRun, clock, fired, job>>

\* lines 944-967 run once more while the scheduler is running (the
\* application is started again without a shutdown in between): both
\* add_job calls take effect, then scheduler.start() raises
\* SchedulerAlreadyRunningError and the scheduler runs on.  A job that is
\* due has been fired before the handler gets to run.
StartupSchedulerAgain ==
    /\ sched.running
    /\ sched.starts < MaxStartups
    /\ \A i \in DOMAIN sched.jobs : ~Due(sched.jobs[i].next_run_time, today, clock)
    /\ sched' = [running |-> TRUE,
                 jobs |-> AddBothJobs(sched.jobs, today, clock),
                 starts |-> sched.starts + 1]
    /\ UNCHANGED <<bookings, today, now, nextId, pc, req, loc, result, budget>>
    /\ UNCHANGED <<env, tasks, mail, nextRun, clock, fired, job, client>>

\* a shutdown that waits until no run of a job is in flight
ProcessStopsWaits ==
    /\ sched.running
    /\ \A j \in JobIds : job[j] = NoRun
    /\ sched' = Stopped
    /\ client' = "closed"
    /\ tasks' = <<>>
    /\ pc' = [p \in Procs |-> "idle"]
    /\ req' = [p \in Procs |-> NoRequest]
    /\ loc' = [p \in Procs |-> NoLocals]
    /\ result' = [p \in Procs |-> Respond("none", NoBody)]
    /\ UNCHANGED <<bookings, today, now, nextId, budget>>
    /\ UNCHANGED <<env, mail, nextRun, clock, fired, job>>

\* lines 970-974, or the process is killed: scheduler.shutdown(wait=False)
\* stops the timer and cancels the runs in flight without waiting for them,
\* then client.close() gives up the connection, with no await in between.
\* The in-memory job store, the pending tasks and the handlers in flight go
\* with the process; the database stays.
ProcessStops ==
    /\ sched.running
    /\ sched' = Stopped
    /\ job' = [j \in JobIds |-> NoRun]
    /\ client' = "closed"
    /\ tasks' = <<>>
    /\ pc' = [p \in Procs |-> "idle"]
    /\ req' = [p \in Procs |-> NoRequest]
    /\ loc' = [p \in Procs |-> NoLocals]
    /\ result' = [p \in Procs |-> Respond("none", NoBody)]
    /\ UNCHANGED <<bookings, today, now, nextId, budget>>
    /\ UNCHANGED <<env, mail, nextRun, clock, fired>>

\* a job that leaves the job store once it has fired
AfterFireOnce(s, i, d, c) == [s EXCEPT !.jobs = RemoveAt(s.jobs, i)]

\* the entry i stays in the store with the next run time of its cron trigger
AfterFire(s, i, d, c) ==
    [s EXCEPT !.jobs[i].next_run_time = NextFire(Hour(s.jobs[i].id), d, c)]

\* the scheduler wakes for a due entry of the job store and submits the job
\* to its executor, which runs at most one instance of a job at a time
\* (max_instances = 1)
Fire(j) ==
    /\ sched.running
    /\ \E i \in JobsNamed(sched, j) :
          /\ Due(sched.jobs[i].next_run_time, today, clock)
          /\ sched' = AfterFire(sched, i, today, clock)
    /\ fired' = [fired EXCEPT ![j] = @ + 1]
    /\ LET js == StartRun(j, nextRun, today)
       IN job' = [job EXCEPT ![j] =
                    IF job[j] # NoRun THEN job[j]
                    ELSE IF js.at = "done" THEN NoRun ELSE js]
    /\ nextRun' = nextRun + 1
    /\ UNCHANGED <<bookings, today, now, nextId, pc, req, loc, result, budget>>
    /\ UNCHANGED <<env, tasks, mail, clock, client>>

\* a run started by the scheduler moves on by one await; what it returns or
\* raises at its end is logged by the executor
JobRunStep(j) ==
    /\ job[j] # NoRun
    /\ \E o \in ResendOutcomes(env.RESEND_API_KEY) :
          LET step == RunJob(job[j], bookings, mail, o, env)
          IN /\ job' = [job EXCEPT ![j] =
                          IF step.js.at = "done" THEN NoRun ELSE step.js]
             /\ bookings' = step.store
             /\ mail' = step.mail
    /\ UNCHANGED <<today, now, nextId, pc, req, loc, result, budget>>
    /\ UNCHANGED <<env, tasks, nextRun, clock, sched, fired, client>>

LastInstant == CHOOSE h \in Instants : \A g \in Instants : g <= h

NextInstant(c) ==
    CHOOSE h \in Instants : h > c /\ \A g \in Instants : g > c => h <= g

LastDay == StartDay + MaxDays - 1

\* Time moves on to the next hour the model looks at.  A running scheduler
\* has its timer set for the earliest next run time, so no due job is left
\* behind; a run of a job takes minutes (at most 100 sends of 20 seconds and
\* a second's sleep each) and the hours are further apart.
Tick ==
    /\ ~(sched.running /\ \E i \in DOMAIN sched.jobs :
                             Due(sched.jobs[i].next_run_time, today, clock))
    /\ \A j \in JobIds : job[j] = NoRun
    /\ IF clock = LastInstant
       THEN /\ today < LastDay
            /\ today' = today + 1
            /\ clock' = FirstInstant
            /\ fired' = [j \in JobIds |-> 0]
       ELSE /\ clock' = NextInstant(clock)
            /\ UNCHANGED <<today, fired>>
    /\ UNCHANGED <<bookings, now, nextId, pc, req, loc, result, budget>>
    /\ UNCHANGED <<env, tasks, mail, nextRun, sched, job, client>>

----------------------------------------------------------------------------
(* The response leaves; the slot serves the next request *)

Return(p) ==
    /\ pc[p] = "done"
    /\ pc' = [pc EXCEPT ![p] = "idle"]
    /\ req' = [req EXCEPT ![p] = NoRequest]
    /\ loc' = [loc EXCEPT ![p] = NoLocals]
    /\ result' = [result EXCEPT ![p] = Respond("none", NoBody)]
    /\ UNCHANGED <<bookings, today, now, nextId, budget>>
    /\ UNCHANGED background

----------------------------------------------------------------------------
(* Concurrent requests: any interleaving of the handlers' steps *)

Next ==
    \/ \E p \in Procs : CreateBooking(p)
    \/ \E p \in Procs : ReserveCheckSlot(p)
    \/ \E p \in Procs : ReserveCheckUser(p)
    \/ \E p \in Procs : ReserveUpsert(p)
    \/ \E p \in Procs : UpdateBooking(p)
    \/ \E p \in Procs : EditFindExisting(p)
    \/ \E p \in Procs : EditCheckConflict(p)
    \/ \E p \in Procs : EditCommit(p)
    \/ \E p \in Procs : EditFetch(p)
    \/ \E p \in Procs : UnlockSlot(p)
    \/ \E p \in Procs : DeleteBooking(p)
    \/ \E p \in Procs : Return(p)

Spec == Init /\ [][Next]_vars

----------------------------------------------------------------------------
(* One administrator and one client, one request at a time *)

InitSeq == InitWith(1, MaxSeqRequests, SeedStores, {StartDay})

NextSeq ==
    \/ \E p \in Procs : SeqCreateBooking(p)
    \/ \E p \in Procs : ReserveCheckSlot(p)
    \/ \E p \in Procs : ReserveCheckUser(p)
    \/ \E p \in Procs : ReserveUpsert(p)
    \/ \E p \in Procs : SeqUpdateBooking(p)
    \/ \E p \in Procs : EditFindExisting(p)
    \/ \E p \in Procs : EditCheckConflict(p)
    \/ \E p \in Procs : EditCommit(p)
    \/ \E p \in Procs : EditFetch(p)
    \/ \E p \in Procs : UnlockSlot(p)
    \/ \E p \in Procs : DeleteBooking(p)
    \/ \E p \in Procs : Return(p)

SpecSeq == InitSeq /\ [][NextSeq]_vars

----------------------------------------------------------------------------
(* N concurrent Reserve calls for one free slot and nothing else *)

RaceDate == StartDay
RaceRole == Prayer

\* stores in which the slot (RaceDate, RaceRole) holds no Booked record
RaceStores ==
    { <<>>,
      <<SeedBooking>>,
      <<[SeedBooking EXCEPT !.role = RaceRole, !.status = Cancelled,
                            !.edited_by_admin = TRUE, !.last_updated_at = 0]>> }

InitRace == InitWith(RaceCallers, RaceCallers, RaceStores, {StartDay})

RaceCreateBooking(p) ==
    \E n \in Names :
        CreateBookingCall(p, ReserveRequest(RaceDate, RaceRole, n, NoEmail))

NextRace ==
    \/ \E p \in Procs : RaceCreateBooking(p)
    \/ \E p \in Procs : ReserveCheckSlot(p)
    \/ \E p \in Procs : ReserveCheckUser(p)
    \/ \E p \in Procs : ReserveUpsert(p)

SpecRace == InitRace /\ [][NextRace]_vars

----------------------------------------------------------------------------
(* Reserve calls over every date around the booking window, on any weekday *)

ProbeDays == StartDay..(StartDay + 6)
ProbeDates == (today - ProbeMargin)..(today + HorizonDays + ProbeMargin)

InitDate == InitWith(1, MaxDateRequests, {<<>>}, ProbeDays)

DateCreateBooking(p) ==
    \E d \in ProbeDates \cup {BadDate} :
        CreateBookingCall(p, ReserveRequest(d, Prayer, NameAB, NoEmail))

NextDate ==
    \/ \E p \in Procs : DateCreateBooking(p)
    \/ \E p \in Procs : ReserveCheckSlot(p)
    \/ \E p \in Procs : ReserveCheckUser(p)
    \/ \E p \in Procs : ReserveUpsert(p)
    \/ \E p \in Procs : Return(p)

SpecDate == InitDate /\ [][NextDate]_vars

----------------------------------------------------------------------------
(* Concurrent Reserve calls against a store that can fail *)

InitFault == InitWith(NumProcs, MaxRequests, SeedStores, {StartDay})

NextFault ==
    \/ \E p \in Procs : CreateBooking(p)
    \/ \E p \in Procs : ReserveCheckSlot(p)
    \/ \E p \in Procs : ReserveCheckUser(p)
    \/ \E p \in Procs : ReserveUpsert(p)
    \/ \E p \in Procs : ReserveStoreFails(p)
    \/ \E p \in Procs : Return(p)

SpecFault == InitFault /\ [][NextFault]_vars

----------------------------------------------------------------------------
(* Concurrent Reserve calls that carry a contact address *)

MailNames == {NameAB, NameCD}

InitMail ==
    InitIn(NumProcs, MaxRequests, SeedStores, {StartDay},
           {e \in Environments : e.PASTOR_EMAIL = PastorEmail})

MailCreateBooking(p) ==
    \E r \in Roles, n \in MailNames, e \in {NoEmail, MemberEmail} :
        CreateBookingCall(p, ReserveRequest(StartDay, r, n, e))

NextMail ==
    \/ \E p \in Procs : MailCreateBooking(p)
    \/ \E p \in Procs : ReserveCheckSlot(p)
    \/ \E p \in Procs : ReserveCheckUser(p)
    \/ \E p \in Procs : ReserveUpsert(p)
    \/ \E p \in Procs : Return(p)
    \/ ConfirmationSend

SpecMail == InitMail /\ [][NextMail]_vars

----------------------------------------------------------------------------
(* The two jobs run on request, on any weekday, between an administrator's
   cancellations *)

Stored(id, n, r, d, st, e) ==
    [id |-> id, created_at |-> 0, full_name |-> n, role |-> r, date |-> d,
     status |-> st, notes |-> NoNotes, email |-> e,
     edited_by_admin |-> st = Cancelled, last_updated_at |-> 0]

\* What the job can find on day d: nothing; three Booked records of the day
\* with addresses (two of them in one slot, which an Edit of the status
\* brings about); and a day with a Booked record with an address, one
\* without, one of another day and a cancelled one.  An Edit puts a record
\* on any date, so the day can be any weekday.
JobStores(d) ==
    { <<>>,
      <<Stored(1, NameAB, Prayer, d, Booked, MemberEmail),
        Stored(2, NameCD, Worship, d, Booked, SecondEmail),
        Stored(3, NameQ, Prayer, d, Booked, ThirdEmail)>>,
      <<Stored(1, NameAB, Prayer, d, Booked, MemberEmail),
        Stored(2, NameCD, Worship, d, Booked, NoEmail),
        Stored(3, NameABUpper, Worship, d + 1, Booked, SecondEmail),
        Stored(4, NameQ, Worship, d, Cancelled, ThirdEmail)>> }

InitJobs ==
    \E d \in ProbeDays :
        InitIn(1, MaxJobRequests, JobStores(d), {d}, Environments)

NextJobs ==
    \/ \E p \in Procs : TriggerReminders(p)
    \/ \E p \in Procs : TriggerPastorSummary(p)
    \/ \E p \in Procs : TriggerStep(p)
    \/ \E p \in Procs : UnlockSlot(p)
    \/ \E p \in Procs : Return(p)

SpecJobs == InitJobs /\ [][NextJobs]_vars

----------------------------------------------------------------------------
(* The scheduler over several days: started, stopped, its triggers firing *)

SchedStores ==
    { <<Stored(1, NameAB, Prayer, StartDay, Booked, MemberEmail),
        Stored(2, NameCD, Worship, StartDay + 1, Booked, SecondEmail)>> }

InitSched == InitIn(1, 0, SchedStores, {StartDay}, Environments)

NextSched ==
    \/ StartupScheduler
    \/ ProcessStops
    \/ \E j \in JobIds : Fire(j)
    \/ \E j \in JobIds : JobRunStep(j)
    \/ Tick

SpecSched == InitSched /\ [][NextSched]_vars

----------------------------------------------------------------------------
(* One day of the service: the scheduler, and requests served while the
   process is up *)

InitDay == InitIn(1, MaxDayRequests, SchedStores, {StartDay}, {Configured})

DayCreateBooking(p) ==
    CreateBookingCall(p, ReserveRequest(today, Worship, NameCD, ThirdEmail))

NextDay ==
    \/ StartupScheduler
    \/ ProcessStops
    \/ \E j \in JobIds : Fire(j)
    \/ \E j \in JobIds : JobRunStep(j)
    \/ clock # LastInstant /\ Tick
    \/ \E p \in Procs : sched.running /\ TriggerReminders(p)
    \/ \E p \in Procs : sched.running /\ TriggerPastorSummary(p)
    \/ \E p \in Procs : TriggerStep(p)
    \/ \E p \in Procs : sched.running /\ DayCreateBooking(p)
    \/ \E p \in Procs : ReserveCheckSlot(p)
    \/ \E p \in Procs : ReserveCheckUser(p)
    \/ \E p \in Procs : ReserveUpsert(p)
    \/ ConfirmationSend
    \/ \E p \in Procs : Return(p)

SpecDay == InitDay /\ [][NextDay]_vars

----------------------------------------------------------------------------
(* The scheduler with startup_scheduler run again and again *)

InitRegistry == InitIn(1, 0, SchedStores, {StartDay}, {Configured})

NextRegistry ==
    \/ StartupScheduler
    \/ StartupSchedulerAgain
    \/ ProcessStops
    \/ \E j \in JobIds : Fire(j)
    \/ \E j \in JobIds : JobRunStep(j)
    \/ Tick

SpecRegistry == InitRegistry /\ [][NextRegistry]_vars

----------------------------------------------------------------------------
(* Concurrent Reserve, Cancel and Delete calls, and no Edit *)

InitNoEdit == InitWith(NumProcs, MaxRequests, RaceStores, {StartDay})

NextNoEdit ==
    \/ \E p \in Procs : CreateBooking(p)
    \/ \E p \in Procs : ReserveCheckSlot(p)
    \/ \E p \in Procs : ReserveCheckUser(p)
    \/ \E p \in Procs : ReserveUpsert(p)
    \/ \E p \in Procs : UnlockSlot(p)
    \/ \E p \in Procs : DeleteBooking(p)
    \/ \E p \in Procs : Return(p)

SpecNoEdit == InitNoEdit /\ [][NextNoEdit]_vars

----------------------------------------------------------------------------
(* The day of a scheduled reminder run, with cancellations, deletions and
   Reserves served one at a time while the scheduler is up *)

\* both slots of today are Booked by members with a contact address
SnapStores ==
    { <<Stored(1, NameAB, Prayer, StartDay, Booked, MemberEmail),
        Stored(2, NameCD, Worship, StartDay, Booked, SecondEmail)>> }

\* the service can send mail; no address is set for the pastor's summary
SnapEnvironments ==
    {e \in Environments : e.RESEND_API_KEY # "" /\ e.PASTOR_EMAIL = ""}

InitSnap == InitIn(1, MaxSnapRequests, SnapStores, {StartDay}, SnapEnvironments)

NextSnap ==
    \/ StartupScheduler
    \/ \E j \in JobIds : Fire(j)
    \/ \E j \in JobIds : JobRunStep(j)
    \/ clock # LastInstant /\ Tick
    \/ \E p \in Procs : sched.running /\ UnlockSlot(p)
    \/ \E p \in Procs : sched.running /\ DeleteBooking(p)
    \/ \E p \in Procs : sched.running /\ DayCreateBooking(p)
    \/ \E p \in Procs : ReserveCheckSlot(p)
    \/ \E p \in Procs : ReserveCheckUser(p)
    \/ \E p \in Procs : ReserveUpsert(p)
    \/ \E p \in Procs : Return(p)

SpecSnap == InitSnap /\ [][NextSnap]_vars

----------------------------------------------------------------------------
(* Requests with any text in their fields: one client, one administrator *)

OtherRole == "Usher"
OtherStatus == "Pending"

\* today + 4 is a Friday when today is a Monday; today - 1 is past
FreeEdits ==
    {[date |-> d] : d \in {today - 1, today + 1, today + 4, BadDate}}
    \cup {[role |-> r] : r \in Roles \cup {OtherRole}}
    \cup {[status |-> st] : st \in {Booked, Cancelled, OtherStatus}}

InitFree == InitWith(1, MaxEditRequests, {<<SeedBooking>>}, {StartDay})

FreeCreateBooking(p) ==
    \E d \in {today + 1, today + 4}, r \in Roles \cup {OtherRole} :
        CreateBookingCall(p, ReserveRequest(d, r, NameCD, NoEmail))

FreeUpdateBooking(p) ==
    \E id \in KnownIds, fields \in FreeEdits :
        UpdateBookingCall(p, id, fields)

NextFree ==
    \/ \E p \in Procs : FreeCreateBooking(p)
    \/ \E p \in Procs : ReserveCheckSlot(p)
    \/ \E p \in Procs : ReserveCheckUser(p)
    \/ \E p \in Procs : ReserveUpsert(p)
    \/ \E p \in Procs : FreeUpdateBooking(p)
    \/ \E p \in Procs : EditFindExisting(p)
    \/ \E p \in Procs : EditCheckConflict(p)
    \/ \E p \in Procs : EditCommit(p)
    \/ \E p \in Procs : EditFetch(p)
    \/ \E p \in Procs : Return(p)

SpecFree == InitFree /\ [][NextFree]_vars

----------------------------------------------------------------------------
(* Availability queries over any range of dates, between cancellations *)

\* A store after some weeks of use: Booked and cancelled records side by
\* side, a slot cancelled and booked again, a record an Edit has put on a
\* Friday, and a record of the week after.
AvailStores ==
    { <<>>,
      <<Stored(1, NameAB, Prayer, StartDay, Booked, NoEmail),
        Stored(2, NameCD, Worship, StartDay, Cancelled, NoEmail),
        Stored(3, NameCD, Prayer, StartDay + 1, Cancelled, NoEmail),
        Stored(4, NameQ, Prayer, StartDay + 1, Booked, NoEmail),
        Stored(5, NameABUpper, Worship, StartDay + 4, Booked, NoEmail),
        Stored(6, NameCD, Worship, StartDay + 7, Booked, NoEmail)>> }

AvailDates == (StartDay - 1)..(StartDay + AvailSpan)

InitAvail == InitWith(1, MaxAvailRequests, AvailStores, {StartDay})

GetAvailability(p) ==
    \E start_date, end_date \in AvailDates \cup {BadDate} :
        GetAvailabilityCall(p, start_date, end_date)

NextAvail ==
    \/ \E p \in Procs : GetAvailability(p)
    \/ \E p \in Procs : UnlockSlot(p)
    \/ \E p \in Procs : Return(p)

SpecAvail == InitAvail /\ [][NextAvail]_vars

----------------------------------------------------------------------------
(* Availability of one day whose slot is held under any name *)

NameAlphabet == {"a", "b", " "}

RECURSIVE NamesOfLen(_)
NamesOfLen(n) ==
    IF n = 0 THEN {<<>>}
    ELSE {Append(s, c) : s \in NamesOfLen(n - 1), c \in NameAlphabet}

\* full_name is free text: BookingCreate asks for two characters or more,
\* of any kind, and BookingUpdate for nothing
NameInputs == UNION {NamesOfLen(n) : n \in 0..MaxNameLen}

NameStores ==
    {<<Stored(1, n, Prayer, StartDay, Booked, NoEmail)>> : n \in NameInputs}

InitName == InitWith(1, 1, NameStores, {StartDay})

NameGetAvailability(p) == GetAvailabilityCall(p, StartDay, StartDay)

NextName ==
    \/ \E p \in Procs : NameGetAvailability(p)
    \/ \E p \in Procs : Return(p)

SpecName == InitName /\ [][NextName]_vars

----------------------------------------------------------------------------
(* Vocabulary of the properties *)

\* case-insensitive exact match of two names
SameName(a, b) ==
    /\ Len(a) = Len(b)
    /\ \A i \in DOMAIN a : Lower(a[i]) = Lower(b[i])

IsBookedAt(b, d, r) == b.status = Booked /\ b.date = d /\ b.role = r

\* Monday to Thursday, from today to 31 days ahead
InBookingWindow(d, t) ==
    /\ d # BadDate
    /\ d % 7 \in {0, 1, 2, 3}
    /\ t <= d
    /\ d - t <= 31

\* slot p's handler delivers its response in this step
Finishes(p) == pc[p] # "done" /\ pc'[p] = "done"

Reserving(p) == req[p].op = "reserve"

AllDone == \A p \in Procs : pc[p] = "done"

Outcomes(kind) == {p \in Procs : result[p].kind = kind}

\* the caller got as far as the conditional write
WroteConditionally(p) == "doc" \in DOMAIN loc[p]

----------------------------------------------------------------------------
(* C1: N concurrent Reserve calls for one free slot *)

RecordsBeforeRace ==
    Range(bookings) \ {result[p].body : p \in Outcomes("Ok")}

\* no caller's duplicate-person check can match: not a Booked record the date
\* held before the calls, and not another caller's name
NoCallerMatches ==
    \A p \in Procs :
        /\ \A b \in RecordsBeforeRace :
              b.status = Booked /\ b.date = req[p].date
                  => ~RegexMatchI(req[p].full_name, b.full_name)
        /\ \A q \in Procs \ {p} :
              ~RegexMatchI(req[p].full_name, req[q].full_name)

----------------------------------------------------------------------------
(* C2: at most one Booked record per (date, role) *)

\* C2: in every reachable state each (date, role) pair has at most one
\* record with status Booked.
C2_OneBookedPerSlot ==
    \A i, j \in DOMAIN bookings :
        /\ bookings[i].status = Booked
        /\ bookings[j].status = Booked
        /\ bookings[i].date = bookings[j].date
        /\ bookings[i].role = bookings[j].role
        => i = j

----------------------------------------------------------------------------
(* C3: at most one Booked record per (date, person) *)

\* C3: in every reachable state each (date, person) pair, names compared
\* case-insensitively, has at most one record with status Booked.
C3_OneBookedPerPerson ==
    \A i, j \in DOMAIN bookings :
        /\ bookings[i].status = Booked
        /\ bookings[j].status = Booked
        /\ bookings[i].date = bookings[j].date
        /\ SameName(bookings[i].full_name, bookings[j].full_name)
        => i = j

----------------------------------------------------------------------------
(* C4: no second booking for a person who already holds one that day *)

HoldsBookedOn(store, n, d) ==
    \E b \in Range(store) :
        b.status = Booked /\ b.date = d /\ SameName(b.full_name, n)

SlotTaken(store, d, r) == \E b \in Range(store) : IsBookedAt(b, d, r)

\* C4: a Reserve for a valid date D by a name that, in any letter case,
\* already holds a Booked record on D adds no record: it signals SlotConflict
\* when the requested slot is taken and DuplicatePerson otherwise.
C4_HolderIsTurnedAway ==
    [][\A p \in Procs :
          /\ Finishes(p)
          /\ req'[p].op = "reserve"
          /\ InBookingWindow(req'[p].date, today)
          /\ HoldsBookedOn(bookings, req'[p].full_name, req'[p].date)
          => /\ bookings' = bookings
             /\ result'[p].kind =
                    IF SlotTaken(bookings, req'[p].date, req'[p].role)
                    THEN "SlotConflict" ELSE "DuplicatePerson"]_vars

----------------------------------------------------------------------------
(* C5: the loser of the conditional write *)

\* C5: when the conditional write of a Reserve whose pre-checks passed finds
\* a Booked record for its (date, role), the Reserve signals SlotConflict,
\* returns no booking, and the store - the winner's record and the number of
\* Booked records of the slot with it - stays exactly as it was.
C5_LoserLeavesStoreAlone ==
    [][\A p \in Procs :
          /\ pc[p] = "upsert"
          /\ pc'[p] = "done"
          /\ SlotTaken(bookings, req[p].date, req[p].role)
          => /\ result'[p] = Respond("SlotConflict", NoBody)
             /\ bookings' = bookings
             /\ \A b \in Range(bookings') : b.id # loc[p].doc.id]_vars

\* a Reserve passed both pre-checks and lost at the conditional write to a
\* record that is now the slot's Booked record
C5_LostAtWrite ==
    \E p \in Procs :
        /\ pc[p] = "done"
        /\ Reserving(p)
        /\ WroteConditionally(p)
        /\ result[p].kind = "SlotConflict"
        /\ \E b \in Range(bookings) :
              /\ IsBookedAt(b, req[p].date, req[p].role)
              /\ b.id # loc[p].doc.id

----------------------------------------------------------------------------
(* C6: the date validation boundary *)

\* C6: a Reserve is turned away with InvalidDate exactly when its date is not
\* a Monday-Thursday in [today, today + 31]; any other Reserve goes on to the
\* pre-checks.
C6_InvalidDateExactlyOutsideWindow ==
    \A p \in Procs :
        pc[p] # "idle" /\ Reserving(p) =>
            ( (pc[p] = "done" /\ result[p].kind = "InvalidDate")
              <=> ~InBookingWindow(req[p].date, today) )

\* a Reserve for the date 31 days ahead was accepted and booked
C6_LastDayBooked ==
    \E p \in Procs :
        /\ pc[p] = "done"
        /\ Reserving(p)
        /\ req[p].date = today + 31
        /\ result[p].kind = "Ok"

----------------------------------------------------------------------------
(* C7: a cancelled slot can be reserved again *)

\* C7: when the slot (D, R) holds a cancelled booking and no Booked one, a
\* Reserve(D, R) with D valid, by a person other than the cancelled booker
\* who holds no Booked record on D, succeeds.
C7_ReleasedSlotIsReservable ==
    [][\A p \in Procs :
          /\ Finishes(p)
          /\ req'[p].op = "reserve"
          /\ InBookingWindow(req'[p].date, today)
          /\ ~SlotTaken(bookings, req'[p].date, req'[p].role)
          /\ ~HoldsBookedOn(bookings, req'[p].full_name, req'[p].date)
          /\ \E c \in Range(bookings) :
                /\ c.status = Cancelled
                /\ c.date = req'[p].date
                /\ c.role = req'[p].role
                /\ ~SameName(c.full_name, req'[p].full_name)
          => result'[p].kind = "Ok"]_vars

----------------------------------------------------------------------------
(* C8: Cancel keeps the record *)

\* C8: a successful Cancel(id) removes nothing: the record with that id stays
\* in place with status Cancelled and the same id, name, role, date and
\* creation time, and every other record is untouched; a successful Reserve
\* appends one record under an id no stored record has and changes no stored
\* record, cancelled ones included.
C8_CancelKeepsRecord ==
    [][\A p \in Procs :
          /\ (/\ Finishes(p)
              /\ req'[p].op = "cancel"
              /\ result'[p].kind = "Ok"
              => /\ Len(bookings') = Len(bookings)
                 /\ \A i \in DOMAIN bookings :
                       IF bookings[i].id = req'[p].id
                       THEN /\ bookings'[i].status = Cancelled
                            /\ \A f \in {"id", "full_name", "role", "date",
                                         "created_at", "notes", "email"} :
                                  bookings'[i][f] = bookings[i][f]
                       ELSE bookings'[i] = bookings[i])
          /\ (/\ Finishes(p)
              /\ req'[p].op = "reserve"
              /\ result'[p].kind = "Ok"
              => /\ Len(bookings') = Len(bookings) + 1
                 /\ SubSeq(bookings', 1, Len(bookings)) = bookings
                 /\ \A b \in Range(bookings) :
                       b.id # bookings'[Len(bookings')].id)]_vars

\* a slot was reserved, cancelled and reserved again: the cancelled record
\* stands beside the later Booked record of the same (date, role)
C8_CancelledBesideNewBooking ==
    \E c, b \in Range(bookings) :
        /\ c.status = Cancelled
        /\ IsBookedAt(b, c.date, c.role)
        /\ b.id # c.id
        /\ b.created_at > c.last_updated_at

----------------------------------------------------------------------------
(* C9: an Edit into a taken slot *)

\* C9: an Edit of booking A that sets its date and/or role so that the
\* resulting (date, role) is that of another booking B with status Booked
\* signals SlotConflict and leaves the store, and with it every attribute of
\* A, as it was.
C9_EditIntoTakenSlotRejected ==
    [][\A p \in Procs :
          /\ Finishes(p)
          /\ req'[p].op = "edit"
          /\ NeedsSlotCheck(req'[p].fields)
          /\ \E a, b \in Range(bookings) :
                /\ a.id = req'[p].id
                /\ b.id # a.id
                /\ IsBookedAt(b,
                      IF "date" \in DOMAIN req'[p].fields
                      THEN req'[p].fields.date ELSE a.date,
                      IF "role" \in DOMAIN req'[p].fields
                      THEN req'[p].fields.role ELSE a.role)
          => /\ result'[p].kind = "SlotConflict"
             /\ bookings' = bookings]_vars

\* an Edit that moves a never-edited booking A onto another booking's Booked
\* slot was answered with SlotConflict
C9_EditRejected ==
    \E p \in Procs :
        /\ pc[p] = "done"
        /\ req[p].op = "edit"
        /\ result[p].kind = "SlotConflict"
        /\ \E a, b \in Range(bookings) :
              /\ a.id = req[p].id
              /\ ~a.edited_by_admin
              /\ b.id # a.id
              /\ b.status = Booked
              /\ "date" \in DOMAIN req[p].fields
              /\ a.date # req[p].fields.date
              /\ b.date = req[p].fields.date
              /\ b.role = a.role

----------------------------------------------------------------------------
(* C10: the order of the Reserve pre-conditions *)

\* C10: a Reserve with a date outside the booking window signals InvalidDate
\* whatever the store holds, and a Reserve with a valid date for a slot that
\* is Booked by the requester signals SlotConflict, not DuplicatePerson.
C10_PreconditionOrder ==
    [][\A p \in Procs :
          Finishes(p) /\ req'[p].op = "reserve" =>
             /\ ~InBookingWindow(req'[p].date, today)
                   => result'[p].kind = "InvalidDate"
             /\ (/\ InBookingWindow(req'[p].date, today)
                 /\ \E b \in Range(bookings) :
                       /\ IsBookedAt(b, req'[p].date, req'[p].role)
                       /\ SameName(b.full_name, req'[p].full_name))
                   => result'[p].kind = "SlotConflict"]_vars

\* the requester's own Booked slot was requested again, under another
\* spelling of the name, and answered with SlotConflict
C10_OwnSlotRequestedAgain ==
    \E p \in Procs :
        /\ pc[p] = "done"
        /\ Reserving(p)
        /\ result[p].kind = "SlotConflict"
        /\ \E b \in Range(bookings) :
              /\ IsBookedAt(b, req[p].date, req[p].role)
              /\ SameName(b.full_name, req[p].full_name)
              /\ b.full_name # req[p].full_name

----------------------------------------------------------------------------
(* C11: a failing store is not a taken slot *)

Raised(p) == "raised" \in DOMAIN loc[p]

\* C11: a Reserve that ends at its conditional write signals SlotConflict
\* exactly when the write returned and had matched a Booked record of the
\* slot; when the write raised (timeout, connection loss) the caller gets a
\* failure that is none of SlotConflict, DuplicatePerson, InvalidDate or
\* success.
C11_WriteFailureIsNotConflict ==
    [][\A p \in Procs :
          pc[p] = "upsert" /\ pc'[p] = "done" =>
             /\ result'[p].kind = "SlotConflict"
                   <=> /\ "raised" \notin DOMAIN loc'[p]
                       /\ SlotTaken(bookings, req[p].date, req[p].role)
             /\ "raised" \in DOMAIN loc'[p] =>
                   result'[p].kind \notin
                       {"Ok", "SlotConflict", "DuplicatePerson", "InvalidDate"}]_vars

\* the conditional write of a Reserve raised while the slot it asked for was
\* Booked by another caller's record
C11_WriteRaisedOnTakenSlot ==
    \E p \in Procs :
        /\ pc[p] = "done"
        /\ Reserving(p)
        /\ WroteConditionally(p)
        /\ Raised(p)
        /\ result[p].kind = "ServerError"
        /\ \E b \in Range(bookings) :
              /\ IsBookedAt(b, req[p].date, req[p].role)
              /\ b.id # loc[p].doc.id

----------------------------------------------------------------------------
(* C12: the confirmation email is not part of the reservation *)

ConfirmationsOf(log, id) ==
    {i \in DOMAIN log : log[i].kind = "confirmation" /\ log[i].ref = id}

\* C12: when a Reserve that carries a contact address succeeds, its response
\* is the new booking and leaves while the confirmation send is still
\* waiting to run; and the step in which a send is made, whatever it comes
\* to, changes no stored record and no handler's position, request or
\* response.
C12_ReserveIndependentOfSend ==
    [][/\ \A p \in Procs :
             /\ pc[p] = "upsert"
             /\ pc'[p] = "done"
             /\ result'[p].kind = "Ok"
             /\ req[p].email # NoEmail
             => /\ result'[p].body = loc[p].doc
                /\ loc[p].doc \in Range(tasks')
                /\ ConfirmationsOf(mail', loc[p].doc.id) = {}
       /\ Len(mail') > Len(mail) =>
             /\ bookings' = bookings
             /\ pc' = pc
             /\ req' = req
             /\ result' = result]_vars

\* a Reserve was answered with its booking, the confirmation send then
\* failed, and the booking stands as it was returned
C12_SendFailedBookingStands ==
    \E p \in Procs, i \in DOMAIN mail :
        /\ pc[p] = "done"
        /\ Reserving(p)
        /\ result[p].kind = "Ok"
        /\ mail[i].kind = "confirmation"
        /\ mail[i].ref = result[p].body.id
        /\ mail[i].outcome \in {"rejected", "timeout"}
        /\ result[p].body \in Range(bookings)

----------------------------------------------------------------------------
(* C13: the admin flag and the last-modified time *)

\* this step is the write of an Edit, or a successful Cancel, on booking id
AdminWrites(id) ==
    \E p \in Procs :
        \/ /\ pc[p] = "edit_commit"
           /\ pc'[p] = "edit_fetch"
           /\ req[p].id = id
        \/ /\ Finishes(p)
           /\ req'[p].op = "cancel"
           /\ req'[p].id = id
           /\ result'[p].kind = "Ok"

\* C13: the write of a successful Edit or Cancel leaves its record with the
\* admin flag true and a last-modified time later than the one it had; no
\* other step changes a record's flag or last-modified time; a record that
\* enters the store has the flag false; and the booking a successful Edit
\* returns carries the flag.
C13_FlagMarksAdminWrites ==
    [][/\ \A b \in Range(bookings), c \in Range(bookings') :
             b.id = c.id =>
                IF AdminWrites(b.id)
                THEN /\ c.edited_by_admin
                     /\ c.last_updated_at > b.last_updated_at
                ELSE /\ c.edited_by_admin = b.edited_by_admin
                     /\ c.last_updated_at = b.last_updated_at
       /\ \A c \in Range(bookings') :
             (\A b \in Range(bookings) : b.id # c.id) =>
                /\ ~c.edited_by_admin
                /\ c.last_updated_at = c.created_at
       /\ \A p \in Procs :
             /\ Finishes(p)
             /\ req'[p].op = "edit"
             /\ result'[p].kind = "Ok"
             => result'[p].body.edited_by_admin]_vars

\* a booking was edited and is still Booked, with the flag and a later
\* last-modified time; another, reserved since, was never touched and has
\* no flag
C13_EditedBesideUntouched ==
    \E a, u \in Range(bookings) :
        /\ a.status = Booked
        /\ a.edited_by_admin
        /\ a.last_updated_at > a.created_at
        /\ ~u.edited_by_admin
        /\ u.created_at > 0

----------------------------------------------------------------------------
(* C14: Edit, Cancel and Delete of an id the store does not hold *)

Ids(store) == {b.id : b \in Range(store)}

AdminOps == {"edit", "cancel", "delete"}

\* C14 as stated: an Edit, Cancel or Delete whose id is not in the store
\* signals NotFound and leaves the store unchanged.
C14_UnknownIdIsNotFound ==
    [][\A p \in Procs :
          /\ Finishes(p)
          /\ req'[p].op \in AdminOps
          /\ req'[p].id \notin Ids(bookings)
          => /\ result'[p].kind = "NotFound"
             /\ bookings' = bookings]_vars

\* C14 amended: no step of an Edit, Cancel or Delete whose id is not in the
\* store changes the store; Cancel, Delete, and an Edit that carries at
\* least one field signal NotFound, with or without a date or role among
\* the fields; an Edit that carries no field is turned away as having
\* nothing to update before any look-up.
C14_UnknownIdChangesNothing ==
    [][\A p \in Procs :
          /\ req'[p].op \in AdminOps
          /\ req'[p].id \notin Ids(bookings)
          => /\ bookings' = bookings
             /\ Finishes(p) =>
                   result'[p].kind =
                      IF req'[p].op = "edit" /\ DOMAIN req'[p].fields = {}
                      THEN "NoFields" ELSE "NotFound"]_vars

\* an Edit of an unknown id that carries neither date nor role reached the
\* write and was answered NotFound, with records in the store
C14_StatusEditOfUnknownId ==
    \E p \in Procs :
        /\ pc[p] = "done"
        /\ req[p].op = "edit"
        /\ DOMAIN req[p].fields # {}
        /\ ~NeedsSlotCheck(req[p].fields)
        /\ req[p].id \notin Ids(bookings)
        /\ result[p].kind = "NotFound"
        /\ bookings # <<>>

----------------------------------------------------------------------------
(* C17-C20: what one run of a job sends *)

\* slot p is in a run of the job kind, started by the manual trigger
Running(p, kind) == pc[p] = "job" /\ loc[p].kind = kind

\* the calls run r has made, as positions in the log
CallsOf(log, r) == {k \in DOMAIN log : log[k].run = r}

Failed(call) == call.outcome # "sent"

----------------------------------------------------------------------------
(* C17: one failed reminder does not end the run *)

\* C17: in a run of the reminder job a send, whatever it comes to, is
\* followed by the throttle step and not by the end of the run; and when the
\* run ends, the caller gets a normal answer and every record the run's query
\* returned has had its send attempted.
C17_FailedSendDoesNotAbort ==
    [][\A p \in Procs :
          Running(p, DailyReminder) =>
             /\ loc[p].at = "send" =>
                   /\ loc'[p].at = "sleep"
                   /\ pc'[p] = "job"
             /\ Finishes(p) =>
                   /\ result'[p].kind = "Ok"
                   /\ \A b \in Range(loc'[p].list) :
                         \E k \in CallsOf(mail', loc[p].run) :
                            mail'[k].ref = b.id /\ mail'[k].to = b.email]_vars

\* the run found three recipients, the send to the second failed, the
\* first and the third were attempted all the same, and the run ended
\* normally
C17_SecondOfThreeFailed ==
    \E p \in Procs :
        /\ pc[p] = "done"
        /\ req[p].op = "trigger"
        /\ req[p].job = DailyReminder
        /\ result[p].kind = "Ok"
        /\ Len(loc[p].list) = 3
        /\ \E k1, k2, k3 \in CallsOf(mail, loc[p].run) :
              /\ k1 < k2
              /\ k2 < k3
              /\ mail[k1].ref = loc[p].list[1].id
              /\ mail[k2].ref = loc[p].list[2].id
              /\ Failed(mail[k2])
              /\ mail[k3].ref = loc[p].list[3].id

----------------------------------------------------------------------------
(* C18: one reminder for each of today's contactable Booked records *)

\* the records a reminder is due to
DueReminder(store, d) ==
    {b \in Range(store) :
        b.status = Booked /\ b.date = d /\ b.email # NoEmail}

\* C18: a run of the reminder job makes one call in each of its send steps
\* and none in any other; each send step is followed by a throttle step;
\* and when the run ends it has made exactly one call, a reminder to the
\* record's address, for each Booked record of today with a contact address,
\* and no call for any other record.
C18_OneReminderPerRecipient ==
    [][\A p \in Procs :
          Running(p, DailyReminder) =>
             /\ loc[p].at = "send" =>
                   /\ Len(mail') = Len(mail) + 1
                   /\ loc'[p].at = "sleep"
             /\ loc[p].at # "send" => mail' = mail
             /\ Finishes(p) =>
                   LET calls == CallsOf(mail', loc[p].run)
                       due == DueReminder(bookings, today)
                   IN /\ \A b \in due :
                            Cardinality({k \in calls :
                                /\ mail'[k].ref = b.id
                                /\ mail'[k].to = b.email
                                /\ mail'[k].kind = "reminder"}) = 1
                      /\ \A k \in calls :
                            \E b \in due : mail'[k].ref = b.id]_vars

\* a run has ended with a single call, on a day that also holds a Booked
\* record without an address and a cancelled one with an address, beside a
\* record of another day with an address
C18_OnlyTheContactableBooked ==
    \E p \in Procs :
        /\ pc[p] = "done"
        /\ req[p].op = "trigger"
        /\ req[p].job = DailyReminder
        /\ Cardinality(CallsOf(mail, loc[p].run)) = 1
        /\ \E b, c, o \in Range(bookings) :
              /\ b.status = Booked /\ b.date = today /\ b.email = NoEmail
              /\ c.status = Cancelled /\ c.date = today /\ c.email # NoEmail
              /\ o.status = Booked /\ o.date # today /\ o.email # NoEmail

----------------------------------------------------------------------------
(* C19: no summary from Friday to Sunday *)

SummaryCalls(log) == {k \in DOMAIN log : log[k].kind = "summary"}

SummaryTriggered(p) ==
    pc[p] # "idle" /\ req[p].op = "trigger" /\ req[p].job = PastorSummary

\* C19: when today is a Friday, Saturday or Sunday, a run of the summary job
\* ends at once with a normal answer and no summary call is ever made,
\* whatever the store holds for the day.
C19_NoSummaryFridayToSunday ==
    today % 7 \in {4, 5, 6} =>
        /\ SummaryCalls(mail) = {}
        /\ \A p \in Procs :
              SummaryTriggered(p) =>
                 /\ pc[p] = "done"
                 /\ result[p].kind = "Ok"
                 /\ CallsOf(mail, loc[p].run) = {}

\* the summary job has run on a Friday that holds Booked records for both
\* roles, with a leadership contact and an API key set, after the reminder
\* job sent its reminders for the same day
C19_FridayRunWithLeaders ==
    \E p \in Procs :
        /\ today % 7 = 4
        /\ SummaryTriggered(p)
        /\ pc[p] = "done"
        /\ env = Configured
        /\ \A r \in Roles : SlotTaken(bookings, today, r)
        /\ \E k \in DOMAIN mail : mail[k].kind = "reminder"

----------------------------------------------------------------------------
(* C20: the summary of a Monday to Thursday *)

\* what the summary may name for role r on day d
ExpectedLeaders(store, d, r) ==
    LET holders == {b \in Range(store) : IsBookedAt(b, d, r)}
    IN IF holders = {} THEN {NotBooked}
       ELSE {b.full_name : b \in holders}

\* C20: a run of the summary job on a Monday to Thursday with a leadership
\* contact configured ends with a normal answer having made exactly one
\* call: a summary to that contact which names, for Prayer and for Worship,
\* the holder of a Booked record of today for the role, or "Not booked"
\* when the role has none.  The run makes its call in its send step and in
\* no other.
C20_OneSummaryNamingLeaders ==
    [][\A p \in Procs :
          Running(p, PastorSummary) =>
             /\ loc[p].at # "send" => mail' = mail
             /\ (Finishes(p) /\ env.PASTOR_EMAIL # "") =>
                   LET calls == CallsOf(mail', loc[p].run)
                   IN /\ today % 7 \in {0, 1, 2, 3}
                      /\ result'[p].kind = "Ok"
                      /\ Cardinality(calls) = 1
                      /\ \A k \in calls :
                            /\ mail'[k].kind = "summary"
                            /\ mail'[k].to = env.PASTOR_EMAIL
                            /\ mail'[k].leaders[1] \in
                                  ExpectedLeaders(bookings, today, Prayer)
                            /\ mail'[k].leaders[2] \in
                                  ExpectedLeaders(bookings, today, Worship)]_vars

\* a summary went out on a day whose Worship slot holds a Booked record and
\* a cancelled one of another person: it names the Booked record's holder
\* for Worship, and a leader for Prayer
C20_CancelledNotNamed ==
    \E k \in SummaryCalls(mail), b, c \in Range(bookings) :
        /\ IsBookedAt(b, today, Worship)
        /\ c.status = Cancelled /\ c.date = today /\ c.role = Worship
        /\ c.last_updated_at >= b.last_updated_at
        /\ c.full_name # b.full_name
        /\ mail[k].leaders[2] = b.full_name
        /\ mail[k].leaders[1] # NotBooked

----------------------------------------------------------------------------
(* C15: each trigger fires once a day *)

FiresNow(j) == fired'[j] = fired[j] + 1

\* C15: no trigger fires more than once on one day, however often the
\* process is stopped and started; a trigger fires only at its hour, for
\* the occurrence the running scheduler holds for that day, and is then set
\* for the same hour of the next day; a running scheduler holds today's
\* occurrence of each trigger until that hour, and time does not pass an
\* occurrence it holds.
C15_OncePerDailyOccurrence ==
    [][\A j \in JobIds :
          /\ fired'[j] <= 1
          /\ FiresNow(j) =>
                /\ sched.running
                /\ clock = Hour(j)
                /\ RunTimeOf(sched, j) = <<today, Hour(j)>>
                /\ RunTimeOf(sched', j) = <<today + 1, Hour(j)>>
          /\ (sched'.running /\ clock' < Hour(j)) =>
                RunTimeOf(sched', j) = <<today', Hour(j)>>
          /\ (sched.running /\ clock' # clock) =>
                ~Due(RunTimeOf(sched, j), today, clock)]_vars

\* on the second day the reminder trigger has fired once, the service was
\* down at the summary's hour and is up again: the summary did not fire
\* and the reminder did not fire a second time
C15_RestartedAfterFiring ==
    /\ today > StartDay
    /\ clock > SummaryHour
    /\ sched.running
    /\ fired[DailyReminder] = 1
    /\ fired[PastorSummary] = 0
    /\ \E k \in DOMAIN mail : mail[k].kind = "summary"

----------------------------------------------------------------------------
(* C16: failed sends neither stop the scheduler nor reach a caller *)

NormalResults == {"Ok", "SlotConflict", "DuplicatePerson", "InvalidDate"}

\* C16: a step in which a send is made, failed or not, leaves the scheduler
\* as it was; a running scheduler keeps both triggers registered and time
\* does not pass an occurrence of either; a manual trigger answers Ok and a
\* Reserve call answers with one of its normal results, whatever the sends
\* did.
C16_SendFailuresStayInside ==
    [][/\ Len(mail') > Len(mail) => sched' = sched
       /\ sched'.running => Registered(sched') = JobIds
       /\ (sched.running /\ clock' # clock) =>
             \A j \in JobIds :
                 /\ j \in Registered(sched)
                 /\ ~Due(RunTimeOf(sched, j), today, clock)
       /\ \A p \in Procs :
             Finishes(p) =>
                 /\ req'[p].op = "trigger" => result'[p].kind = "Ok"
                 /\ req'[p].op = "reserve" => result'[p].kind \in NormalResults]_vars

\* every send of the day failed: the reminder run's, the confirmation's and
\* the summary's; both triggers fired and are registered for tomorrow, and
\* the Reserve caller has its record
C16_AllSendsFailedDayWentOn ==
    /\ \A k \in DOMAIN mail : Failed(mail[k])
    /\ \A kind \in {"reminder", "confirmation", "summary"} :
          \E k \in DOMAIN mail : mail[k].kind = kind
    /\ \A j \in JobIds :
          /\ fired[j] = 1
          /\ sched.running
          /\ RunTimeOf(sched, j) = <<today + 1, Hour(j)>>
    /\ \E p \in Procs :
          /\ pc[p] = "done"
          /\ req[p].op = "reserve"
          /\ result[p].kind = "Ok"

----------------------------------------------------------------------------
(* C21: a second run of the reminder job sends to everyone again *)

\* the records called and the addresses used by run r
Sent(log, r) == {<<log[k].ref, log[k].to>> : k \in CallsOf(log, r)}

\* C21: when a run of the reminder job ends, every Booked record of today
\* with a contact address has had a call from this run, whatever earlier
\* runs sent; and an earlier run that called exactly the records matching
\* now made the same calls, as many and to the same addresses.
C21_RerunSendsAgain ==
    [][\A p \in Procs :
          (Running(p, DailyReminder) /\ Finishes(p)) =>
             LET r == loc[p].run
                 due == DueReminder(bookings, today)
             IN /\ \A b \in due : <<b.id, b.email>> \in Sent(mail', r)
                /\ \A r0 \in 1..(r - 1) :
                      {c[1] : c \in Sent(mail', r0)} = {b.id : b \in due} =>
                         /\ Sent(mail', r0) = Sent(mail', r)
                         /\ Cardinality(CallsOf(mail', r0)) =
                               Cardinality(CallsOf(mail', r))]_vars

\* two runs of the reminder job on one day and one store have ended, and
\* each has called the same three records
C21_SameThreeTwice ==
    \E p \in Procs :
        /\ pc[p] = "done"
        /\ req[p].op = "trigger"
        /\ req[p].job = DailyReminder
        /\ Len(loc[p].list) = 3
        /\ \E r0 \in 1..(loc[p].run - 1) :
              /\ Sent(mail, r0) = Sent(mail, loc[p].run)
              /\ Cardinality(Sent(mail, r0)) = 3
              /\ Cardinality(CallsOf(mail, r0) \cup CallsOf(mail, loc[p].run)) = 6

----------------------------------------------------------------------------
(* C22: registering under a registered name replaces the registration *)

\* C22: however often startup_scheduler has registered its two jobs, the
\* job store of a running scheduler holds one entry with the id of the
\* reminder job, one with the id of the summary job and nothing else, and
\* no trigger has fired more than once on the day.
C22_OneEntryPerName ==
    /\ sched.running =>
          /\ \A j \in JobIds : Cardinality(JobsNamed(sched, j)) = 1
          /\ Len(sched.jobs) = Cardinality(JobIds)
    /\ \A j \in JobIds : fired[j] <= 1

\* the jobs were registered a second time over their entries before the
\* reminder's hour, and by the evening each trigger has fired once
C22_RegisteredTwiceFiredOnce ==
    /\ sched.running
    /\ sched.starts >= 2
    /\ today = StartDay
    /\ clock > SummaryHour
    /\ \A j \in JobIds :
          /\ fired[j] = 1
          /\ RunTimeOf(sched, j) = <<today + 1, Hour(j)>>

----------------------------------------------------------------------------
(* C23: shutdown *)

\* C23: a running scheduler can be shut down in every state, with or
\* without a run of a job in flight; the step that stops it takes no time,
\* leaves no job registered and no run in flight and closes the connection
\* to the store; the connection is never closed while the scheduler runs;
\* and while the scheduler is stopped no trigger fires and no run proceeds.
C23_ShutdownWaitsForNothing ==
    [][/\ sched.running => ENABLED ProcessStops
       /\ (sched.running /\ ~sched'.running) =>
             /\ sched'.jobs = <<>>
             /\ \A j \in JobIds : job'[j] = NoRun
             /\ client = "open" /\ client' = "closed"
             /\ clock' = clock /\ today' = today
       /\ client' = "closed" => ~sched'.running
       /\ ~sched.running =>
             /\ \A j \in JobIds : ~FiresNow(j) /\ job'[j] = NoRun
             /\ mail' = mail]_vars

\* the reminder trigger fired and the scheduler was shut down within the
\* hour while the run was in flight: the record due a reminder has had no
\* call, the connection is closed, nothing is registered
C23_StoppedWithRunInFlight ==
    /\ ~sched.running
    /\ client = "closed"
    /\ sched.jobs = <<>>
    /\ today = StartDay
    /\ clock = ReminderHour
    /\ fired[DailyReminder] = 1
    /\ DueReminder(bookings, today) # {}
    /\ \A k \in DOMAIN mail : mail[k].kind # "reminder"

----------------------------------------------------------------------------
(* C24-C26: the availability query *)

\* the query of slot p is answered in this step with its list
Listed(p) ==
    /\ Finishes(p)
    /\ req'[p].op = "availability"
    /\ result'[p].kind = "Ok"

\* the list a finished query got
ListOf(p) == result[p].body

QueryDone(p) ==
    /\ pc[p] = "done"
    /\ req[p].op = "availability"
    /\ result[p].kind = "Ok"

\* C24: a query with two dates is answered with a list; its dates ascend
\* strictly, so no date has two entries; the dates are exactly the Mondays
\* to Thursdays from startDate to endDate, both included; and the list is
\* empty when startDate is after endDate.
C24_MondayToThursdayInOrder ==
    [][\A p \in Procs :
          (Finishes(p) /\ req'[p].op = "availability") =>
             LET from == req'[p].start_date
                 to == req'[p].end_date
                 out == result'[p].body
             IN (from # BadDate /\ to # BadDate) =>
                   /\ result'[p].kind = "Ok"
                   /\ \A i, k \in DOMAIN out : i < k => out[i].date < out[k].date
                   /\ {out[i].date : i \in DOMAIN out} =
                         {d \in from..to : d % 7 \in {0, 1, 2, 3}}
                   /\ from > to => out = <<>>]_vars

\* a query over more than a week, from a Sunday on, was answered with a
\* list that has the Thursday before the weekend and the Monday after it
\* next to each other
C24_AcrossAWeekend ==
    \E p \in Procs :
        /\ QueryDone(p)
        /\ req[p].start_date % 7 = 6
        /\ req[p].end_date - req[p].start_date > 7
        /\ \E i \in DOMAIN ListOf(p) :
              /\ i + 1 \in DOMAIN ListOf(p)
              /\ ListOf(p)[i].date % 7 = 3
              /\ ListOf(p)[i + 1].date = ListOf(p)[i].date + 4

\* the store holds a Booked record for the slot
Held(store, d, r) == \E b \in Range(store) : IsBookedAt(b, d, r)

Inked(n) == {i \in DOMAIN n : n[i] # " "}

FirstInked(n) == CHOOSE i \in Inked(n) : \A k \in Inked(n) : i <= k

LastInked(n) == CHOOSE i \in Inked(n) : \A k \in Inked(n) : k <= i

\* the name has a space between two of its tokens
SeveralTokens(n) ==
    \E i \in DOMAIN n : n[i] = " " /\ FirstInked(n) < i /\ i < LastInked(n)

\* where the first token ends and where the last token starts
FirstTokenEnd(n) ==
    CHOOSE i \in Inked(n) :
        /\ FirstInked(n)..i \subseteq Inked(n)
        /\ i + 1 \notin Inked(n)

LastTokenStart(n) ==
    CHOOSE i \in Inked(n) :
        /\ i..LastInked(n) \subseteq Inked(n)
        /\ i - 1 \notin Inked(n)

Initialled(n) ==
    SubSeq(n, FirstInked(n), FirstTokenEnd(n))
        \o <<" ", n[LastTokenStart(n)], ".">>

\* the name of the holder of the one Booked record in the store, and the
\* name shown for it
HolderName == bookings[1].full_name

Shown(p) == result'[p].body[1].prayer_booked_by

\* C26 as stated: a name of two or more tokens is shown as its first token,
\* a space, the first character of its last token and a period; a name of
\* one token is shown unchanged; a name that is empty or all spaces is shown
\* as the placeholder.
C26_SingleTokenUnchanged ==
    [][\A p \in Procs :
          Listed(p) =>
             Shown(p) =
                IF Inked(HolderName) = {} THEN Anonymous
                ELSE IF SeveralTokens(HolderName) THEN Initialled(HolderName)
                ELSE HolderName]_vars

\* C26, amended: as stated, except that a name of one token is shown as
\* that token, without the spaces before and after it.
C26_SingleTokenStripped ==
    [][\A p \in Procs :
          Listed(p) =>
             Shown(p) =
                IF Inked(HolderName) = {} THEN Anonymous
                ELSE IF SeveralTokens(HolderName) THEN Initialled(HolderName)
                ELSE SubSeq(HolderName, FirstInked(HolderName),
                            LastInked(HolderName))]_vars

\* a name of one token with a space before it is shown as the token alone
C26_PaddedTokenShownBare ==
    \E p \in Procs :
        /\ QueryDone(p)
        /\ Inked(HolderName) # {}
        /\ HolderName[1] = " "
        /\ ~SeveralTokens(HolderName)
        /\ Len(ListOf(p)[1].prayer_booked_by) < Len(HolderName)
        /\ ListOf(p)[1].prayer_booked_by # Anonymous

----------------------------------------------------------------------------
(* C27: stored dates *)

\* the records a step adds to the store
Added == {b \in Range(bookings') : \A c \in Range(bookings) : c.id # b.id}

\* C27 as stated: after every step, an Edit of a date as well as a Reserve,
\* every stored record's date is a Monday to Thursday, and a record that is
\* added has a date from today to 31 days ahead.
C27_StoredDatesAreBookable ==
    [][/\ \A b \in Range(bookings') :
             b.date # BadDate /\ b.date % 7 \in {0, 1, 2, 3}
       /\ \A b \in Added : today <= b.date /\ b.date - today <= 31]_vars

----------------------------------------------------------------------------
(* C28: stored roles and statuses *)

\* C28 as stated: every stored record has the role Prayer or Worship and
\* the status Booked or Cancelled, after an Edit as after a Reserve; and a
\* Reserve with another role is rejected and stores nothing.
C28_RoleAndStatusStayInTheirSets ==
    [][/\ \A b \in Range(bookings') :
             /\ b.role \in {"Prayer", "Worship"}
             /\ b.status \in {"Booked", "Cancelled"}
       /\ \A p \in Procs :
             (req'[p].op = "reserve" /\ req'[p].role \notin {"Prayer", "Worship"}) =>
                /\ bookings' = bookings
                /\ pc'[p] = "done" => result'[p].kind = "Unprocessable"]_vars

----------------------------------------------------------------------------
(* C29: the jobs only read the store *)

\* C29: no step of a run of the reminder job or of the summary job, from the
\* request that starts it to its end, changes the store, whatever its sends
\* come to.
C29_JobsOnlyRead ==
    [][\A p \in Procs :
          (req'[p].op = "trigger" \/ pc[p] = "job") => bookings' = bookings]_vars

\* a run of the reminder job with a send that failed and one that went out,
\* then a run of the summary job, have ended, and the store is as it was at
\* the start
C29_RunsEndedStoreAsBefore ==
    \E p \in Procs :
        /\ pc[p] = "done"
        /\ req[p].op = "trigger"
        /\ req[p].job = PastorSummary
        /\ bookings \in JobStores(today)
        /\ bookings # <<>>
        /\ \E k \in SummaryCalls(mail) : mail[k].run = loc[p].run
        /\ \E k1, k2 \in DOMAIN mail :
              /\ mail[k1].kind = "reminder" /\ Failed(mail[k1])
              /\ mail[k2].kind = "reminder" /\ ~Failed(mail[k2])

----------------------------------------------------------------------------
(* C30: without Edit, one Booked record per slot *)

BookedAt(store, d, r) == {i \in DOMAIN store : IsBookedAt(store[i], d, r)}

\* C30: with Reserve, Cancel and Delete running in any interleaving, after
\* every step no date and role has two Booked records; and a Reserve that
\* gets as far as its conditional write, whatever its pre-checks saw, adds
\* its record exactly when the slot has no Booked record at that moment.
C30_WriteAloneKeepsOnePerSlot ==
    [][/\ \A i \in DOMAIN bookings' :
             bookings'[i].status = Booked =>
                BookedAt(bookings', bookings'[i].date, bookings'[i].role) = {i}
       /\ \A p \in Procs :
             (pc[p] = "upsert" /\ pc'[p] = "done") =>
                IF BookedAt(bookings, req[p].date, req[p].role) = {}
                THEN /\ bookings' = Append(bookings, loc[p].doc)
                     /\ result'[p].kind = "Ok"
                ELSE /\ bookings' = bookings
                     /\ result'[p].kind = "SlotConflict"]_vars

\* two Reserve calls for one slot had both passed both pre-checks before
\* either wrote; one has its record in the store, the other was turned away
\* at the write
C30_BothPassedChecksOneWon ==
    \E p, q \in Procs :
        /\ p # q
        /\ pc[p] = "done" /\ pc[q] = "done"
        /\ Reserving(p) /\ Reserving(q)
        /\ req[p].date = req[q].date /\ req[p].role = req[q].role
        /\ WroteConditionally(p) /\ WroteConditionally(q)
        /\ result[p].kind = "Ok"
        /\ result[q].kind = "SlotConflict"
        /\ Cardinality(BookedAt(bookings, req[p].date, req[p].role)) = 1

----------------------------------------------------------------------------
(* C31: an Edit of date and/or role by one administrator *)

\* the Edit in slot p sets date and/or role and nothing else
MovesOnly(r) ==
    /\ r.op = "edit"
    /\ DOMAIN r.fields # {}
    /\ DOMAIN r.fields \subseteq {"date", "role"}

\* C31: with one actor and nothing concurrent, an Edit that sets only date
\* and/or role of a stored booking ends in success or SlotConflict; when it
\* writes, it changes the edited record alone and no other record is Booked
\* at that record's new (date, role); when it signals SlotConflict it has
\* written nothing.
C31_MoveKeepsSlotToItself ==
    [][\A p \in Procs :
          /\ MovesOnly(req'[p])
          /\ \E a \in Range(bookings) : a.id = req'[p].id
          => /\ bookings' # bookings =>
                   LET i == FindOne(IdFilter(bookings', req'[p].id))
                   IN /\ Len(bookings') = Len(bookings)
                      /\ pc'[p] # "done"
                      /\ \A k \in DOMAIN bookings' \ {i} :
                            /\ bookings'[k] = bookings[k]
                            /\ ~IsBookedAt(bookings'[k], bookings'[i].date,
                                           bookings'[i].role)
             /\ Finishes(p) =>
                   /\ result'[p].kind \in {"Ok", "SlotConflict"}
                   /\ result'[p].kind = "SlotConflict" =>
                         /\ bookings' = bookings
                         /\ "update_dict" \notin DOMAIN loc'[p]]_vars

\* an Edit of the role alone moved a Booked record into the free slot beside
\* another booking's Booked slot of the same day
C31_MovedBesideAnotherBooking ==
    \E p \in Procs :
        /\ pc[p] = "done"
        /\ MovesOnly(req[p])
        /\ DOMAIN req[p].fields = {"role"}
        /\ result[p].kind = "Ok"
        /\ result[p].body.status = Booked
        /\ \E b \in Range(bookings) :
              /\ b.id # req[p].id
              /\ b.status = Booked
              /\ b.date = result[p].body.date
              /\ b.role # result[p].body.role

----------------------------------------------------------------------------
(* C32: an Edit of the status alone *)

StatusOnly(r) == r.op = "edit" /\ DOMAIN r.fields = {"status"}

\* C32: an Edit whose body holds a status and nothing else never reaches the
\* conflict query; on a stored id its write sets the status whatever the
\* store holds and it answers with the record, so a cancelled booking set
\* back to Booked is committed also when another booking is Booked at its
\* (date, role).
C32_StatusEditRunsNoCheck ==
    [][\A p \in Procs :
          StatusOnly(req'[p]) =>
             /\ pc'[p] \notin {"edit_find", "edit_conflict"}
             /\ \A i \in IdFilter(bookings, req'[p].id) :
                   /\ pc[p] = "edit_commit" /\ pc'[p] # pc[p] =>
                         /\ pc'[p] = "edit_fetch"
                         /\ bookings'[i].status = req'[p].fields.status
                   /\ Finishes(p) =>
                         /\ result'[p].kind = "Ok"
                         /\ result'[p].body.status = req'[p].fields.status]_vars

\* a cancelled booking was set back to Booked by an Edit of its status while
\* another booking held its (date, role) as Booked, and the Edit succeeded
C32_RevivedIntoTakenSlot ==
    \E p \in Procs :
        /\ pc[p] = "done"
        /\ StatusOnly(req[p])
        /\ req[p].fields.status = Booked
        /\ result[p].kind = "Ok"
        /\ \E a, b \in Range(bookings) :
              /\ a.id = req[p].id
              /\ b.id # a.id
              /\ IsBookedAt(a, b.date, b.role)
              /\ b.status = Booked
              /\ b.created_at > a.created_at

----------------------------------------------------------------------------
(* C33: a Reserve that is turned away writes nothing *)

\* the handler in slot p takes a step
Steps(p) == pc'[p] # pc[p]

Refusals == {"InvalidDate", "SlotConflict", "DuplicatePerson"}

\* C33: no step of a Reserve changes the store except the one in which it
\* answers with its booking; a Reserve that ends in InvalidDate, in
\* SlotConflict (at the pre-check or at the conditional write) or in
\* DuplicatePerson leaves every record, the one its write matched included,
\* as it was and inserts none.
C33_RefusedReserveWritesNothing ==
    [][\A p \in Procs :
          Steps(p) /\ req'[p].op = "reserve" =>
             /\ pc'[p] # "done" => bookings' = bookings
             /\ Finishes(p) /\ result'[p].kind \in Refusals =>
                   bookings' = bookings
             /\ bookings' # bookings => result'[p].kind = "Ok"]_vars

\* two Reserves for one slot both reached the conditional write; the loser
\* got SlotConflict and the store holds the winner's record as it was
\* returned, and nothing else
C33_LoserLeftWinnerIntact ==
    \E p, q \in Procs :
        /\ pc[p] = "done" /\ pc[q] = "done"
        /\ Reserving(p) /\ Reserving(q)
        /\ WroteConditionally(p)
        /\ result[p].kind = "SlotConflict"
        /\ result[q].kind = "Ok"
        /\ req[p].date = req[q].date /\ req[p].role = req[q].role
        /\ bookings = <<result[q].body>>

----------------------------------------------------------------------------
(* C34: what a successful Reserve adds *)

\* C34: the step in which a Reserve answers with its booking appends one
\* record and changes no stored record; the new record has the id of the
\* booking returned, status Booked, edited_by_admin false and the date, role
\* and name of the request, and no record stored before has that id.
C34_SuccessAddsTheReturnedRecord ==
    [][\A p \in Procs :
          /\ Finishes(p)
          /\ req'[p].op = "reserve"
          /\ result'[p].kind = "Ok"
          => /\ Len(bookings') = Len(bookings) + 1
             /\ \A i \in DOMAIN bookings : bookings'[i] = bookings[i]
             /\ LET added == bookings'[Len(bookings')]
                IN /\ added.id = result'[p].body.id
                   /\ added.status = Booked
                   /\ added.edited_by_admin = FALSE
                   /\ added.date = req'[p].date
                   /\ added.role = req'[p].role
                   /\ added.full_name = req'[p].full_name
                   /\ \A i \in DOMAIN bookings :
                         bookings[i].id # added.id]_vars

\* two concurrent Reserves both succeeded beside a cancelled record of an
\* earlier run: three records under three ids
C34_TwoAddedBesideACancelled ==
    \E p, q \in Procs :
        /\ pc[p] = "done" /\ pc[q] = "done"
        /\ Reserving(p) /\ Reserving(q)
        /\ result[p].kind = "Ok" /\ result[q].kind = "Ok"
        /\ result[p].body.id # result[q].body.id
        /\ Len(bookings) = 3
        /\ bookings[1].status = Cancelled
        /\ {result[p].body, result[q].body} = {bookings[2], bookings[3]}

----------------------------------------------------------------------------
(* C35: when a confirmation send is scheduled *)

\* the confirmation sends created for the booking id so far: those waiting
\* to run and those that have run
Scheduled(queue, log, id) ==
    Cardinality({i \in DOMAIN queue : queue[i].id = id})
        + Cardinality(ConfirmationsOf(log, id))

\* slot p's Reserve answers with its booking in this step and its request
\* carried a contact address
SucceedsWithAddress(p) ==
    /\ Finishes(p)
    /\ req'[p].op = "reserve"
    /\ result'[p].kind = "Ok"
    /\ req'[p].email # NoEmail

\* C35: a step of a Reserve creates a confirmation send exactly when it is
\* the step in which the Reserve succeeds and the request carried a contact
\* address, and then it creates one, for the booking returned; a Reserve
\* refused at a pre-check or at the conditional write and a success without
\* an address create none, nothing else creates one, and no booking ever
\* has more than one.
C35_ConfirmationExactlyOnSuccessWithAddress ==
    [][/\ \A p \in Procs :
             Steps(p) /\ req'[p].op = "reserve" =>
                IF SucceedsWithAddress(p)
                THEN tasks' = Append(tasks, result'[p].body)
                ELSE tasks' = tasks
       /\ Len(tasks') > Len(tasks) => \E p \in Procs : SucceedsWithAddress(p)
       /\ \A b \in Range(bookings') :
             /\ Scheduled(tasks', mail', b.id) <= 1
             /\ b.email = NoEmail => Scheduled(tasks', mail', b.id) = 0]_vars

\* two Reserves with a contact address raced for one slot: the winner has
\* its one confirmation send, the loser at the conditional write has none
C35_OnlyTheWinnerIsConfirmed ==
    \E p, q \in Procs :
        /\ pc[p] = "done" /\ pc[q] = "done"
        /\ Reserving(p) /\ Reserving(q)
        /\ req[p].email # NoEmail /\ req[q].email # NoEmail
        /\ result[p].kind = "Ok"
        /\ result[q].kind = "SlotConflict"
        /\ WroteConditionally(q)
        /\ Scheduled(tasks, mail, result[p].body.id) = 1
        /\ Scheduled(tasks, mail, loc[q].doc.id) = 0

----------------------------------------------------------------------------
(* C36: a run of the reminder job sends from the one read at its start *)

\* the run of the reminder job the scheduler's executor is in
Run == job[DailyReminder]

\* the run of the reminder job ends in this step
RunEnds == Run # NoRun /\ job'[DailyReminder] = NoRun /\ sched'.running

\* C36: a run of the reminder job takes its list from the store in its first
\* step, the Booked records of today with a contact address at that moment,
\* and never changes it afterwards, whatever is cancelled, deleted or
\* reserved meanwhile; when the run ends it has made one call for each
\* record of that list and for no other.
C36_RecipientsFixedByTheRead ==
    [][Run # NoRun =>
          /\ Run.at = "find" /\ job'[DailyReminder] # Run /\ ~RunEnds =>
                Range(job'[DailyReminder].list) = DueReminder(bookings, today)
          /\ Run.at = "find" /\ RunEnds => DueReminder(bookings, today) = {}
          /\ Run.at # "find" /\ ~RunEnds =>
                job'[DailyReminder].list = Run.list
          /\ RunEnds =>
                /\ Sent(mail', Run.run) =
                      {<<b.id, b.email>> : b \in Range(Run.list)}
                /\ Cardinality(CallsOf(mail', Run.run)) = Len(Run.list)]_vars

\* a run has ended that called both holders of its read, one of them
\* cancelled or gone by now, and did not call the Booked record with an
\* address that has taken the freed slot of today
C36_FormerHolderCalledNewcomerNot ==
    /\ Run = NoRun
    /\ fired[DailyReminder] = 1
    /\ \E r \in 1..(nextRun - 1) : \E k \in CallsOf(mail, r) :
          /\ mail[k].kind = "reminder"
          /\ Cardinality(CallsOf(mail, r)) = 2
          /\ \A c \in Range(bookings) :
                c.id = mail[k].ref => c.status = Cancelled
          /\ \E b \in DueReminder(bookings, today) :
                /\ b.id \notin {c[1] : c \in Sent(mail, r)}
                /\ b.created_at > 0

====
